---- MODULE Spec2Model ----
(***************************************************************************)
(* Gridbert: the external data-acquisition layer.                          *)
(*   - _request_with_retry (tools/tariff_compare.py): HTTP request with    *)
(*     retry and exponential backoff, checked under SpecRetry;             *)
(*   - SmartMeterClient / fetch_smart_meter_data (tools/smartmeter.py):    *)
(*     the PKCE login handshake and the authenticated data calls, checked  *)
(*     under SpecPortal.                                                   *)
(***************************************************************************)
EXTENDS Integers, Sequences, FiniteSets, TLC

VARIABLES
    \* ---- _request_with_retry: one call ----
    rpc,          \* position: "request" | "sleep" | "returned" | "raised"
    attempt,      \* the loop variable of `for attempt in range(_MAX_RETRIES)`
    last_exc,     \* the local last_exc (NoExc = None)
    raised_exc,   \* the exception that left the call (NoExc while none)
    trace,        \* what the call did: the requests issued and the sleeps taken
    \* ---- SmartMeterClient: one client object ----
    caller,       \* who drives the client: "direct" (its public methods) | "fetch" (fetch_smart_meter_data)
    access_token, \* self._access_token (NoneVal = None)
    api_key,      \* self._api_key (NoneVal = None)
    closed,       \* self._http has been closed
    ppc,          \* position inside _api_get / _authenticate ("idle" between calls)
    op,           \* the public method being executed and its arguments
    code_verifier,\* _authenticate local
    action_url,   \* _authenticate local
    action_url2,  \* _authenticate local
    code,         \* _authenticate local
    requests,     \* every request sent through self._http, in order
    hs,           \* one record per _authenticate run: how it ended
    ret,          \* how the last public method call ended, and its value
    ncalls,       \* number of public method calls started on the client
    responses,    \* what the portal answered during the current (or last) public method call
    \* ---- fetch_smart_meter_data ----
    fpc,          \* position inside fetch_smart_meter_data
    zp_arg,       \* its zaehlpunkt argument
    zp_list,      \* its local zp_list
    zp_body,      \* the JSON body its get_zaehlpunkte call received, once it returned
    fetch_ret,    \* how fetch_smart_meter_data ended
    closes,       \* number of client.close() calls
    \* ---- get_verbrauch: the response parser, applied to both response shapes ----
    vb_entries,   \* the reading entries the portal has for the period, in order
    vb_days,      \* the same entries as a list of daily objects
    vb_flat,      \* result of the parser on the single-object response ("-" before the call)
    vb_nested,    \* result of the parser on the list-of-days response ("-" before the call)
    \* ---- compare_tariffs: one call ----
    tpc,          \* position: "session" | "grid" | "rate" | "parse" | "returned" | "raised"
    t_args,       \* the caller's jahresverbrauch_kwh, aktueller_energiepreis, aktuelle_grundgebuehr
    t_failed,     \* the step of the catalog lookup that raised ("-" while none did)
    t_raw,        \* raw_tarife, once _fetch_tariffs_econtrol returned
    t_result,     \* how compare_tariffs ended, and the TariffComparison it returned
    \* ---- run_agent / _execute_tool: one agent run ----
    a_caller,     \* "run_agent" (the loop drives the dispatcher) | "direct" (_execute_tool called on its own)
    apc,          \* position: "chat" | "dispatch" | "direct" | "returned" | "raised"
    turn,         \* the loop variable of `for turn in range(max_turns)`
    state,        \* the state dict (RunState): one entry per key, present or not
    messages,     \* the transcript sent to the language model
    pending,      \* fn_name, fn_args of the tool call parsed in this turn
    a_calls,      \* number of _execute_tool calls made so far
    a_chats,      \* number of client.chat calls made so far
    a_reply,      \* content of the last response of the language model
    a_last,       \* the last _execute_tool call: name, arguments, state before, result
    a_ret,        \* what run_agent returned
    \* ---- run_pipeline: one run ----
    pl_pc,        \* the step about to run: "invoice" | "smartmeter" | "tariff" | "beg" | "report" | "save" | "returned" | "raised"
    pl_args,      \* wn_email and wn_password (given or empty), and what the invoice file holds
    pl_events,    \* what _progress sent to the progress sink, in order
    pl_calls,     \* the collaborators called, in order, with the consumption handed to them
    pl_invoice,   \* the local invoice (with its declared jahresverbrauch_kwh)
    pl_smart,     \* the local smart_meter (None, or the series with its projection)
    pl_verbrauch, \* the local jahresverbrauch
    pl_tariff,    \* the local tariff_comparison
    pl_beg,       \* the local beg_comparison
    pl_report,    \* the local report (the sections it was assembled from)
    pl_ret,       \* how run_pipeline ended: the report and analysis id, or the exception
    \* ---- the web runs: start_pipeline_run and the stream endpoint ----
    active_runs,  \* _active_runs: the run ids registered (each with its queue)
    worker,       \* per run, its thread: "idle" | "running" | "returned" | "raised" (how run_pipeline ended)
    run_queue,    \* per run, the events waiting on its queue q
    run_put,      \* per run, every event its worker has put on q, in order
    l_pc,         \* per listener (one request of /stream/<run_id>): "idle" | "streaming" | "ended" | "404"
    l_run,        \* per listener, the run id of its request
    l_got         \* per listener, the SSE events its generator yielded, in order

retryVars == <<rpc, attempt, last_exc, raised_exc, trace>>

authLocals == <<code_verifier, action_url, action_url2, code>>
clientVars == <<access_token, api_key, closed, ppc, op, authLocals, requests, hs, ret, ncalls, responses, closes>>
fetchVars == <<fpc, zp_arg, zp_list, zp_body, fetch_ret>>
portalVars == <<caller, clientVars, fetchVars>>

verbrauchVars == <<vb_entries, vb_days, vb_flat, vb_nested>>

tariffVars == <<tpc, t_args, t_failed, t_raw, t_result>>

agentVars == <<a_caller, apc, turn, state, messages, pending, a_calls, a_chats, a_reply,
               a_last, a_ret>>

pipelineVars == <<pl_pc, pl_args, pl_events, pl_calls, pl_invoice, pl_smart, pl_verbrauch,
                  pl_tariff, pl_beg, pl_report, pl_ret>>

sseVars == <<active_runs, worker, run_queue, run_put, l_pc, l_run, l_got>>

vars == <<retryVars, portalVars, verbrauchVars, tariffVars, agentVars, pipelineVars, sseVars>>

\* what the steps of one component leave alone: the variables of the others
exceptRetry == <<portalVars, verbrauchVars, tariffVars, agentVars, pipelineVars, sseVars>>
exceptPortal == <<retryVars, verbrauchVars, tariffVars, agentVars, pipelineVars, sseVars>>
exceptVerbrauch == <<retryVars, portalVars, tariffVars, agentVars, pipelineVars, sseVars>>
exceptTariffs == <<retryVars, portalVars, verbrauchVars, agentVars, pipelineVars, sseVars>>
exceptAgent == <<retryVars, portalVars, verbrauchVars, tariffVars, pipelineVars, sseVars>>
exceptSse == <<retryVars, portalVars, verbrauchVars, tariffVars, agentVars, pipelineVars>>
exceptPipeline == <<retryVars, portalVars, verbrauchVars, tariffVars, agentVars, sseVars>>

\* Python's None, wherever a value may be absent.
NoneVal == "None"

(***************************************************************************)
(* _request_with_retry                                                     *)
(***************************************************************************)

_MAX_RETRIES == 3
_RETRY_BACKOFF_BASE == 2

NoExc == [type |-> "None", status |-> 0]

\* What one client.request(...) can end with: a response with a status code, or
\* a transport exception. ReadError stands for the httpx transport errors that
\* are neither TimeoutException nor ConnectError.
Outcomes == [kind : {"response"}, status : {200, 204, 400, 404, 500, 503}, error : {"-"}]
            \cup [kind : {"exception"}, status : {0}, error : {"TimeoutException", "ConnectError", "ReadError"}]


\* The exception the try block raises for one attempt's outcome (lines 38-46);
\* NoExc when the response is returned. response.raise_for_status() raises
\* HTTPStatusError for 4xx and 5xx, never for 2xx. (The client follows
\* redirects, so a final 3xx is not among the modelled statuses.)
TryBlockExc(o) ==
    IF o.kind = "exception" THEN [type |-> o.error, status |-> 0]
    ELSE IF o.status >= 500 THEN [type |-> "HTTPStatusError", status |-> o.status]
    ELSE IF o.status >= 400 THEN [type |-> "HTTPStatusError", status |-> o.status]
    ELSE NoExc

\* except (httpx.TimeoutException, httpx.ConnectError, httpx.HTTPStatusError)
Caught(exc) == exc.type \in {"TimeoutException", "ConnectError", "HTTPStatusError"}

\* wait = _RETRY_BACKOFF_BASE ** (attempt + 1)
WaitMutant(a) == _RETRY_BACKOFF_BASE ^ a
Wait(a) == _RETRY_BACKOFF_BASE ^ (a + 1)



\* One pass through the try block: client.request, the status checks, and the
\* except clause up to (not including) time.sleep.
Request ==
    /\ rpc = "request"
    /\ attempt < _MAX_RETRIES
    /\ \E o \in Outcomes :
         LET exc == TryBlockExc(o) IN
         /\ trace' = Append(trace, [ev |-> "request", n |-> attempt + 1, out |-> o, exc |-> exc])
         /\ IF exc = NoExc
            THEN \* return response
                 /\ rpc' = "returned"
                 /\ UNCHANGED <<attempt, last_exc, raised_exc>>
            ELSE IF ~Caught(exc)
            THEN \* not named by the except clause: leaves the function at once
                 /\ rpc' = "raised"
                 /\ raised_exc' = exc
                 /\ UNCHANGED <<attempt, last_exc>>
            ELSE /\ last_exc' = exc
                 /\ IF attempt < _MAX_RETRIES - 1
                    THEN /\ rpc' = "sleep"
                         /\ UNCHANGED <<attempt, raised_exc>>
                    ELSE \* log.error, the loop ends, raise last_exc
                         /\ rpc' = "raised"
                         /\ attempt' = attempt + 1
                         /\ raised_exc' = exc
    /\ UNCHANGED exceptRetry

\* time.sleep(wait), then the next iteration of the loop.
Sleep ==
    /\ rpc = "sleep"
    /\ trace' = Append(trace, [ev |-> "sleep", n |-> Wait(attempt), out |-> [kind |-> "-", status |-> 0, error |-> "-"], exc |-> NoExc])
    /\ attempt' = attempt + 1
    /\ IF attempt + 1 < _MAX_RETRIES
       THEN rpc' = "request" /\ UNCHANGED raised_exc
       ELSE rpc' = "raised" /\ raised_exc' = last_exc    \* loop exhausted: raise last_exc
    /\ UNCHANGED last_exc
    /\ UNCHANGED exceptRetry

RetryNext == Request \/ Sleep

(***************************************************************************)
(* SmartMeterClient: data and pure helpers                                 *)
(***************************************************************************)

\* ---- strings that are parsed are sequences of tokens ----
RECURSIVE IndexOf(_, _)
\* s.find(tok) + 1: the position of the first tok in s, 0 when absent
IndexOf(s, tok) ==
    IF s = <<>> THEN 0
    ELSE IF Head(s) = tok THEN 1
    ELSE LET r == IndexOf(Tail(s), tok) IN IF r = 0 THEN 0 ELSE r + 1

RECURSIVE Split(_, _)
\* str.split(sep): "a&&b" gives ["a", "", "b"], "" gives [""]
Split(s, sep) ==
    LET i == IndexOf(s, sep) IN
    IF i = 0 THEN <<s>>
    ELSE <<SubSeq(s, 1, i - 1)>> \o Split(SubSeq(s, i + 1, Len(s)), sep)

\* str.replace("&amp;", "&")
ReplaceAmp(s) == [i \in DOMAIN s |-> IF s[i] = "&amp;" THEN "&" ELSE s[i]]

\* urlparse(location).fragment: what follows the first "#"
UrlFragmentMutant(loc) ==
    LET i == IndexOf(loc, "?") IN
    IF i = 0 THEN <<>> ELSE SubSeq(loc, i + 1, Len(loc))
UrlFragment(loc) ==
    LET i == IndexOf(loc, "#") IN
    IF i = 0 THEN <<>> ELSE SubSeq(loc, i + 1, Len(loc))

RECURSIVE DictGet(_, _)
\* dict(pairs).get(key): the value of the last pair with that key (some), else
\* None (some = FALSE)
DictGet(pairs, key) ==
    IF pairs = <<>> THEN [some |-> FALSE, v |-> <<>>]
    ELSE LET last == pairs[Len(pairs)] IN
         IF last[1] = key THEN [some |-> TRUE, v |-> last[2]]
         ELSE DictGet(SubSeq(pairs, 1, Len(pairs) - 1), key)

\* lines 117-121: the code parameter of the redirect's fragment, or None
FragmentParts(loc) ==
    LET HasEq(part) == IndexOf(part, "=") > 0
        parts == SelectSeq(Split(UrlFragment(loc), "&"), HasEq) IN
    [k \in DOMAIN parts |->
        LET e == IndexOf(parts[k], "=") IN
        <<SubSeq(parts[k], 1, e - 1), SubSeq(parts[k], e + 1, Len(parts[k]))>>]
CodeOfUpToEnd(loc) ==
    LET f == UrlFragment(loc)
        i == IndexOf(f, "code") IN
    IF i = 0 \/ i + 1 > Len(f) THEN [some |-> FALSE, v |-> <<>>]
    ELSE [some |-> TRUE, v |-> SubSeq(f, i + 2, Len(f))]
CodeOf(loc) == DictGet(FragmentParts(loc), <<"code">>)


\* Python truthiness of an optional string (None and "" are falsy)
Truthy(x) == x \notin {NoneVal, ""}

\* re.search(r'action="([^"]+)"', text): an HTML text is modelled by the values
\* of the action="..." attributes it contains, in document order; the first
\* non-empty one matches.
\* <<>> stands for "no match".
ActionMatchMutant(html) == IF html = <<>> THEN <<"about:blank">> ELSE Head(html)
RECURSIVE ActionMatch(_)
ActionMatch(html) ==
    IF html = <<>> THEN <<>>
    ELSE IF Head(html) # <<>> THEN Head(html)
    ELSE ActionMatch(Tail(html))


\* get_zaehlpunkte, lines 173-181: flatten the contract list
RECURSIVE FlattenZpsMutant(_, _)
FlattenZpsMutant(gp, zps) ==
    IF zps = <<>> THEN <<>>
    ELSE <<[zaehlpunkt |-> Head(zps), geschaeftspartner |-> gp]>>
         \o FlattenZpsMutant(gp, Tail(zps))
RECURSIVE FlattenZps(_, _)
FlattenZps(gp, zps) ==
    IF zps = <<>> THEN <<>>
    ELSE (IF Truthy(Head(zps))
          THEN <<[zaehlpunkt |-> Head(zps), geschaeftspartner |-> gp]>>
          ELSE <<>>) \o FlattenZps(gp, Tail(zps))
RECURSIVE FlattenContracts(_)
FlattenContracts(contracts) ==
    IF contracts = <<>> THEN <<>>
    ELSE FlattenZps(Head(contracts).geschaeftspartner, Head(contracts).zaehlpunkte)
         \o FlattenContracts(Tail(contracts))
Zaehlpunkte(data) ==
    IF data.isList THEN FlattenContracts(data.items) ELSE <<>>


\* get_verbrauch, lines 216-237.  An entry's zeitpunktVon and wert are modelled
\* by what the parser can see of them:
\*   zeitpunktVon: "absent" | "empty" | "isoZ" (ISO text ending in Z) |
\*                 "iso" (ISO text with no zone) | "text" (no ISO date) |
\*                 "number" (a JSON number, not a string)
\*   wert:         "absent" (missing or null) | "number" | "numstr" (a numeric
\*                 string) | "text" (a non-numeric string) | "list"
\* ts.replace("Z", "+00:00") and datetime.fromisoformat
TsResult(ts) ==
    CASE ts.t = "isoZ"   -> [ok |-> TRUE,  exc |-> "-", zone |-> "+00:00", at |-> ts.v]
      [] ts.t = "iso"    -> [ok |-> TRUE,  exc |-> "-", zone |-> "naive", at |-> ts.v]
      [] ts.t = "text"   -> [ok |-> FALSE, exc |-> "ValueError", zone |-> "-", at |-> 0]
      [] ts.t = "number" -> [ok |-> FALSE, exc |-> "AttributeError", zone |-> "-", at |-> 0]
\* float(wert)
FloatResult(w) ==
    CASE w.t \in {"number", "numstr"} -> [ok |-> TRUE, exc |-> "-", v |-> w.v]
      [] w.t = "text" -> [ok |-> FALSE, exc |-> "ValueError", v |-> 0]
      [] w.t = "list" -> [ok |-> FALSE, exc |-> "TypeError", v |-> 0]

\* One pass of the loop body, lines 228-237: "append", "skip" or "raise".
EntryStep(val) ==
    IF val.zeitpunktVon.t \in {"absent", "empty"} \/ val.wert.t = "absent"
    THEN [do |-> "skip", exc |-> "-"]
    ELSE LET t == TsResult(val.zeitpunktVon)
             f == FloatResult(val.wert) IN
         IF ~t.ok
         THEN (IF t.exc \in {"ValueError", "TypeError"}
               THEN [do |-> "skip", exc |-> "-"] ELSE [do |-> "raise", exc |-> t.exc])
         ELSE IF ~f.ok
         THEN (IF f.exc \in {"ValueError", "TypeError"}
               THEN [do |-> "skip", exc |-> "-"] ELSE [do |-> "raise", exc |-> f.exc])
         ELSE [do |-> "append", exc |-> "-"]
Reading(val) ==
    [timestamp |-> [at |-> TsResult(val.zeitpunktVon).at, zone |-> TsResult(val.zeitpunktVon).zone],
     kwh |-> FloatResult(val.wert).v]

RECURSIVE ParseValues(_)
\* the readings list, or the exception that leaves the loop
ParseValues(values) ==
    IF values = <<>> THEN [ok |-> TRUE, exc |-> "-", readings |-> <<>>]
    ELSE LET st == EntryStep(Head(values)) IN
         IF st.do = "raise" THEN [ok |-> FALSE, exc |-> st.exc, readings |-> <<>>]
         ELSE LET rest == ParseValues(Tail(values)) IN
              IF ~rest.ok THEN rest
              ELSE [ok |-> TRUE, exc |-> "-",
                    readings |-> (IF st.do = "append" THEN <<Reading(Head(values))>> ELSE <<>>)
                                 \o rest.readings]

RECURSIVE DayValuesMutant(_)
DayValuesMutant(days) ==
    IF days = <<>> THEN <<>>
    ELSE LET d == Head(days) IN
         (IF d.hasWpi THEN d.wpiList ELSE IF d.hasValues THEN d.values ELSE <<>>)
         \o DayValuesMutant(Tail(days))
RECURSIVE DayValues(_)
\* lines 224-225: entry.get("values", entry.get("wpiList", [])) of every day
DayValues(days) ==
    IF days = <<>> THEN <<>>
    ELSE LET d == Head(days) IN
         (IF d.hasValues THEN d.values ELSE IF d.hasWpi THEN d.wpiList ELSE <<>>)
         \o DayValues(Tail(days))

\* lines 219-225
ValuesOf(data) ==
    IF data.shape = "dict" THEN (IF data.hasValues THEN data.values ELSE <<>>)
    ELSE IF data.shape = "list" THEN DayValues(data.days)
    ELSE <<>>

Verbrauch(data) == ParseValues(ValuesOf(data))

(***************************************************************************)
(* SmartMeterClient: what the portal can answer                            *)
(***************************************************************************)

MaxCalls == 2       \* public method calls on one directly driven client


\* the exceptions that can leave the client's methods
Err ==
    [None |-> [type |-> "None", msg |-> ""],
     Transport |-> [type |-> "httpx.TransportError", msg |-> "request failed"],
     Status |-> [type |-> "httpx.HTTPStatusError", msg |-> "error status"],
     Json |-> [type |-> "ValueError", msg |-> "response body is not JSON"],
     Closed |-> [type |-> "RuntimeError", msg |-> "Cannot send a request, as the client has been closed."],
     NoAction |-> [type |-> "RuntimeError", msg |-> "Login-Seite hat kein action-Attribut"],
     NoLocation |-> [type |-> "RuntimeError", msg |-> "Login fehlgeschlagen - falsche Credentials oder 2FA aktiv?"],
     NoCode |-> [type |-> "RuntimeError", msg |-> "Kein 'code' in Redirect-Fragment"],
     NoToken |-> [type |-> "KeyError", msg |-> "access_token"],
     NoZp |-> [type |-> "RuntimeError", msg |-> "Keine Zaehlpunkte gefunden"]]


\* redirect targets of the password POST
Loc ==
    [Code |-> <<"https://smartmeter-web.wienernetze.at/", "#", "code", "=", "c1">>,
     CodeAmongOthers |-> <<"https://smartmeter-web.wienernetze.at/", "#", "state", "=", "s1", "&", "code", "=", "c1", "&", "iss", "=", "x">>,
     QueryCode |-> <<"https://smartmeter-web.wienernetze.at/", "?", "code", "=", "q1">>,
     QueryCodeFragmentState |-> <<"https://smartmeter-web.wienernetze.at/", "?", "code", "=", "q1", "#", "state", "=", "s1">>,
     EmptyCode |-> <<"https://smartmeter-web.wienernetze.at/", "#", "code", "=">>,
     BareCode |-> <<"https://smartmeter-web.wienernetze.at/", "#", "code">>,
     LoginAgain |-> <<"https://log.wien/login-actions/authenticate">>]


Contract(gp, zps) == [geschaeftspartner |-> gp, zaehlpunkte |-> zps]

\* an entry: the kind (t) and the value (v) of its zeitpunktVon and of its wert
Entry(tst, tsv, wt, wv) == [zeitpunktVon |-> [t |-> tst, v |-> tsv], wert |-> [t |-> wt, v |-> wv]]
Day(hv, v, hw, w) == [hasValues |-> hv, values |-> v, hasWpi |-> hw, wpiList |-> w]
DictBody(hv, v) == [shape |-> "dict", hasValues |-> hv, values |-> v, days |-> <<>>]
ListBody(days) == [shape |-> "list", hasValues |-> FALSE, values |-> <<>>, days |-> days]

NoOp == [name |-> "-", customer_id |-> "", zaehlpunkt |-> ""]
NoRet == [status |-> "none", exc |-> Err.None, results |-> <<>>, readings |-> <<>>, body |-> [isList |-> FALSE, items |-> <<>>]]
Raised(exc) == [NoRet EXCEPT !.status = "raised", !.exc = exc]
NoBody == [seen |-> FALSE, body |-> NoRet.body]
\* a request: the public method call and the handshake it belongs to (for a data
\* request: the number of handshakes run so far), and what it carries
Req(kind, hsn, bearer, apikey, pkce, c) ==
    [kind |-> kind, call |-> ncalls, hsn |-> hsn, bearer |-> bearer, apikey |-> apikey,
     pkce |-> pkce, code |-> c]
NoResponses ==
    [authorize |-> [kind |-> "-", html |-> <<>>],
     password |-> [kind |-> "-", loc |-> <<>>],
     token |-> [kind |-> "-", token |-> ""],
     config |-> [kind |-> "-", key |-> ""],
     data |-> "-"]

\* What the portal can answer to each request of the client.
Answers ==
    [authorize |->   \* the login page: the action attributes of its HTML text (none, an empty one, a URL)
       {[kind |-> "transport", html |-> <<>>], [kind |-> "status", html |-> <<>>]}
       \cup [kind : {"html"}, html : {<<>>, << <<>> >>, << <<"https://log.wien/login?s=1", "&amp;", "tab=2">> >>}],
     username |->   \* the password page, a redirect, or any other status
       {[kind |-> "transport", html |-> <<>>, loc |-> <<>>],
        [kind |-> "redirect", html |-> <<>>, loc |-> <<"https://log.wien/step2">>],
        [kind |-> "other", html |-> <<>>, loc |-> <<>>]}
       \cup [kind : {"200"}, html : {<<>>, << <<"https://log.wien/password?s=1">> >>}, loc : {<<>>}],
     password |->   \* a Location header with one of the redirect targets, or none
       {[kind |-> "transport", loc |-> <<>>], [kind |-> "nolocation", loc |-> <<>>]}
       \cup [kind : {"location"}, loc : {Loc[k] : k \in DOMAIN Loc}],
     token |->   \* tokens["access_token"]: a token, "" or JSON null
       {[kind |-> "transport", token |-> ""], [kind |-> "status", token |-> ""],
        [kind |-> "badjson", token |-> ""], [kind |-> "nokey", token |-> ""]}
       \cup [kind : {"json"}, token : {"tok1", "", NoneVal}],
     config |->   \* config["b2cApiKey"]: a key, or no such key
       {[kind |-> "transport", key |-> ""], [kind |-> "status", key |-> ""],
        [kind |-> "badjson", key |-> ""]}
       \cup [kind : {"json"}, key : {"key1", "absent"}],
     zaehlpunkte |->   \* the JSON body of the metering-point list
       {[kind |-> "transport"], [kind |-> "status"], [kind |-> "badjson"]}
       \cup [kind : {"json"}, body :
              { [isList |-> FALSE, items |-> <<>>],
                [isList |-> TRUE, items |-> <<>>],
                [isList |-> TRUE, items |-> <<Contract("G1", <<>>)>>],
                [isList |-> TRUE, items |-> <<Contract("G1", <<"">>), Contract("G2", <<NoneVal>>)>>],
                [isList |-> TRUE, items |-> <<Contract("G1", <<"AT1">>)>>],
                [isList |-> TRUE, items |-> <<Contract("G1", <<"", "AT1">>), Contract("G2", <<"AT2">>)>>] }],
     bewegungsdaten |->   \* the JSON body of the consumption data
       {[kind |-> "transport"], [kind |-> "status"], [kind |-> "badjson"]}
       \cup [kind : {"json"}, body :
              { DictBody(FALSE, <<>>),
                DictBody(TRUE, <<Entry("isoZ", 1, "number", 13),
                                 Entry("absent", 0, "number", 7),
                                 Entry("isoZ", 2, "text", 0),
                                 Entry("iso", 3, "numstr", 21)>>),
                ListBody(<<Day(TRUE, <<Entry("isoZ", 1, "number", 13)>>, FALSE, <<>>),
                           Day(FALSE, <<>>, TRUE, <<Entry("text", 0, "number", 5),
                                                    Entry("isoZ", 2, "absent", 0)>>)>>),
                DictBody(TRUE, <<Entry("number", 5, "number", 13)>>) }]]


(***************************************************************************)
(* SmartMeterClient: operations                                            *)
(***************************************************************************)

ClearLocals ==
    /\ code_verifier' = "" /\ action_url' = <<>> /\ action_url2' = <<>> /\ code' = <<>>

\* an exception leaves _authenticate (and with it _api_get and the public method)
AuthFail(step, exc) ==
    /\ hs' = [hs EXCEPT ![Len(hs)] = [result |-> "failed", step |-> step]]
    /\ ret' = Raised(exc)
    /\ ppc' = "idle"
    /\ ClearLocals

\* line 156: if not self._access_token
NeedsHandshakeMutant == TRUE
NeedsHandshake == ~Truthy(access_token)

\* _api_get, lines 156-157: entered by a public method o
ApiGet(o) ==
    /\ ppc = "idle"
    /\ op' = o
    /\ ncalls' = ncalls + 1
    /\ ret' = NoRet
    /\ responses' = NoResponses
    /\ ppc' = (IF NeedsHandshake THEN "authorize" ELSE "data")
    /\ UNCHANGED <<access_token, api_key, closed, authLocals, requests, hs, closes>>

\* _generate_pkce, lines 31-36: the verifier v that os.urandom(32) yields and
\* its challenge (urlsafe-b64 of its sha256: the injective image <<"S256", v>>)
GeneratePkceUnrelated(v) == [verifier |-> v, challenge |-> <<"S256", "v0">>]
GeneratePkce(v) == [verifier |-> v, challenge |-> <<"S256", v>>]

\* _authenticate, lines 54-80: PKCE pair, GET of the authorize endpoint
\* (redirects followed), raise_for_status, the form's action attribute
\* (v: the verifier os.urandom(32) yields; the challenge, urlsafe-b64 of its
\* sha256, is the injective image <<"S256", v>>)
AuthorizeGet ==
    /\ ppc = "authorize"
    /\ \E v \in {"v1", "v2"} :
         IF closed
         THEN /\ hs' = Append(hs, [result |-> "failed", step |-> "authorize"])
              /\ ret' = Raised(Err.Closed) /\ ppc' = "idle" /\ ClearLocals
              /\ UNCHANGED <<requests, responses>>
         ELSE /\ requests' = Append(requests, Req("authorize", Len(hs) + 1, "-", "-", GeneratePkce(v).challenge, <<>>))
              /\ \E r \in Answers.authorize :
                   /\ responses' = [responses EXCEPT !.authorize = r]
                   /\ LET exc == CASE r.kind = "transport" -> Err.Transport
                                   [] r.kind = "status" -> Err.Status
                                   [] ActionMatch(r.html) = <<>> -> Err.NoAction
                                   [] OTHER -> Err.None
                      IN IF exc # Err.None
                         THEN /\ hs' = Append(hs, [result |-> "failed", step |-> "authorize"])
                              /\ ret' = Raised(exc) /\ ppc' = "idle" /\ ClearLocals
                         ELSE /\ hs' = Append(hs, [result |-> "running", step |-> "-"])
                              /\ code_verifier' = GeneratePkce(v).verifier
                              /\ action_url' = ReplaceAmp(ActionMatch(r.html))
                              /\ ppc' = "username"
                              /\ UNCHANGED <<ret, action_url2, code>>
    /\ UNCHANGED <<caller, access_token, api_key, closed, op, ncalls, closes, fetchVars, exceptPortal>>

\* lines 83-100: POST of the username, then the target of the password form
ActionUrl2(r) ==
    CASE r.kind = "200" ->
            (IF ActionMatch(r.html) # <<>> THEN ReplaceAmp(ActionMatch(r.html)) ELSE action_url)
      [] r.kind = "redirect" -> r.loc
      [] OTHER -> action_url
UsernamePost ==
    /\ ppc = "username"
    /\ IF closed
       THEN AuthFail("username", Err.Closed) /\ UNCHANGED requests
       ELSE /\ requests' = Append(requests, Req("username", Len(hs), "-", "-", <<>>, <<>>))
            /\ \E r \in Answers.username :
                 IF r.kind = "transport"
                 THEN AuthFail("username", Err.Transport)
                 ELSE /\ action_url2' = ActionUrl2(r)
                      /\ ppc' = "password"
                      /\ UNCHANGED <<hs, ret, code_verifier, action_url, code>>
    /\ UNCHANGED <<caller, access_token, api_key, closed, op, ncalls, responses, closes, fetchVars, exceptPortal>>

\* lines 103-125: POST of the password (redirect not followed), then the
\* authorization code out of the Location header
PasswordPost ==
    /\ ppc = "password"
    /\ IF closed
       THEN AuthFail("password", Err.Closed) /\ UNCHANGED <<requests, responses>>
       ELSE /\ requests' = Append(requests, Req("password", Len(hs), "-", "-", <<>>, <<>>))
            /\ \E r \in Answers.password :
                 /\ responses' = [responses EXCEPT !.password = r]
                 /\ CASE r.kind = "transport" -> AuthFail("password", Err.Transport)
                      [] r.kind = "nolocation" -> AuthFail("code", Err.NoLocation)
                      [] OTHER ->
                           IF (LET c == CodeOf(r.loc) IN ~c.some \/ c.v = <<>>)   \* line 122: `not code`
                           THEN AuthFail("code", Err.NoCode)
                           ELSE /\ code' = CodeOf(r.loc).v
                                /\ ppc' = "token"
                                /\ UNCHANGED <<hs, ret, code_verifier, action_url, action_url2>>
    /\ UNCHANGED <<caller, access_token, api_key, closed, op, ncalls, closes, fetchVars, exceptPortal>>

\* lines 128-141: code and verifier against a token
TokenPost ==
    /\ ppc = "token"
    /\ IF closed
       THEN AuthFail("token", Err.Closed) /\ UNCHANGED <<requests, responses, access_token>>
       ELSE /\ requests' = Append(requests, Req("token", Len(hs), "-", "-", <<"verifier", code_verifier>>, code))
            /\ \E r \in Answers.token :
                 /\ responses' = [responses EXCEPT !.token = r]
                 /\ IF r.kind # "json"
                    THEN /\ AuthFail("token", CASE r.kind = "transport" -> Err.Transport
                                                [] r.kind = "status" -> Err.Status
                                                [] r.kind = "badjson" -> Err.Json
                                                [] OTHER -> Err.NoToken)
                         /\ UNCHANGED access_token
                    ELSE /\ access_token' = r.token
                         /\ ppc' = "config"
                         /\ UNCHANGED <<hs, ret, authLocals>>
    /\ UNCHANGED <<caller, api_key, closed, op, ncalls, closes, fetchVars, exceptPortal>>

\* lines 144-152: the gateway API key out of the app configuration
ConfigGet ==
    /\ ppc = "config"
    /\ IF closed
       THEN AuthFail("config", Err.Closed) /\ UNCHANGED <<requests, responses, api_key>>
       ELSE /\ requests' = Append(requests, Req("config", Len(hs), access_token, "-", <<>>, <<>>))
            /\ \E r \in Answers.config :
                 /\ responses' = [responses EXCEPT !.config = r]
                 /\ IF r.kind # "json"
                    THEN /\ AuthFail("config", CASE r.kind = "transport" -> Err.Transport
                                                 [] r.kind = "status" -> Err.Status
                                                 [] OTHER -> Err.Json)
                         /\ UNCHANGED api_key
                    ELSE /\ api_key' = (IF r.key = "absent" THEN "" ELSE r.key)
                         /\ hs' = [hs EXCEPT ![Len(hs)] = [result |-> "Authenticated", step |-> "-"]]
                         /\ ppc' = "data"
                         /\ ClearLocals
                         /\ UNCHANGED ret
    /\ UNCHANGED <<caller, access_token, closed, op, ncalls, closes, fetchVars, exceptPortal>>

\* _api_get, lines 159-166, and what the public method makes of the body
\* (get_zaehlpunkte lines 173-181, get_verbrauch lines 216-245)
DataResult(name, r) ==
    CASE r.kind = "transport" -> Raised(Err.Transport)
      [] r.kind = "status" -> Raised(Err.Status)
      [] r.kind = "badjson" -> Raised(Err.Json)
      [] r.kind = "json" /\ name = "zaehlpunkte" ->
            [NoRet EXCEPT !.status = "returned", !.results = Zaehlpunkte(r.body), !.body = r.body]
      [] OTHER ->
            LET v == Verbrauch(r.body) IN
            IF v.ok THEN [NoRet EXCEPT !.status = "returned", !.readings = v.readings]
            ELSE Raised([type |-> v.exc, msg |-> "malformed entry"])
DataGet ==
    /\ ppc = "data"
    /\ IF closed
       THEN ret' = Raised(Err.Closed) /\ UNCHANGED <<requests, responses>>
       ELSE /\ requests' = Append(requests, Req(op.name, Len(hs), access_token, (IF Truthy(api_key) THEN api_key ELSE "-"), <<>>, <<>>))
            /\ \E r \in (IF op.name = "zaehlpunkte" THEN Answers.zaehlpunkte ELSE Answers.bewegungsdaten) :
                 /\ responses' = [responses EXCEPT !.data = r.kind]
                 /\ ret' = DataResult(op.name, r)
    /\ ppc' = "idle"
    /\ UNCHANGED <<caller, access_token, api_key, closed, op, authLocals, hs, ncalls, closes, fetchVars, exceptPortal>>

\* ---- a caller using the client's public methods directly ----
ZpOp == [name |-> "zaehlpunkte", customer_id |-> "", zaehlpunkt |-> ""]
VerbrauchOp(gp, zp) == [name |-> "user/messwerte/bewegungsdaten", customer_id |-> gp, zaehlpunkt |-> zp]

DirectCall ==
    /\ caller = "direct"
    /\ ncalls < MaxCalls
    /\ \E o \in {ZpOp, VerbrauchOp("G1", "AT1")} : ApiGet(o)
    /\ UNCHANGED <<caller, fetchVars, exceptPortal>>

\* close(), lines 247-248
DirectClose ==
    /\ caller = "direct"
    /\ ppc = "idle"
    /\ ~closed
    /\ closed' = TRUE
    /\ closes' = closes + 1
    /\ UNCHANGED <<caller, access_token, api_key, ppc, op, authLocals, requests, hs, ret, ncalls,
                   responses, fetchVars, exceptPortal>>

\* ---- fetch_smart_meter_data, lines 251-276 ----
\* line 256: zp_list = client.get_zaehlpunkte()
FetchZaehlpunkte ==
    /\ caller = "fetch"
    /\ fpc = "start"
    /\ ApiGet(ZpOp)
    /\ fpc' = "zaehlpunkte"
    /\ UNCHANGED <<caller, zp_arg, zp_list, zp_body, fetch_ret, exceptPortal>>

\* lines 263-267: the wanted metering point, else the first one
Target(zps) ==
    LET IsWanted(z) == z.zaehlpunkt = zp_arg
        hit == SelectSeq(zps, IsWanted) IN
    IF Truthy(zp_arg) /\ hit # <<>> THEN Head(hit) ELSE Head(zps)

\* lines 256-274: get_zaehlpunkte is back; the empty check, the target, and the
\* entry into get_verbrauch
FetchSelect ==
    /\ caller = "fetch"
    /\ fpc = "zaehlpunkte" /\ ppc = "idle" /\ ret.status # "none"
    /\ IF ret.status = "raised"
       THEN /\ fetch_ret' = ret /\ fpc' = "finally"
            /\ UNCHANGED <<zp_list, zp_body, clientVars>>
       ELSE /\ zp_list' = ret.results
            /\ zp_body' = [seen |-> TRUE, body |-> ret.body]
            /\ IF ret.results = <<>>
               THEN /\ fetch_ret' = Raised(Err.NoZp) /\ fpc' = "finally"
                    /\ UNCHANGED clientVars
               ELSE /\ ApiGet(VerbrauchOp(Target(ret.results).geschaeftspartner,
                                          Target(ret.results).zaehlpunkt))
                    /\ fpc' = "verbrauch"
                    /\ UNCHANGED fetch_ret
    /\ UNCHANGED <<caller, zp_arg, exceptPortal>>

\* lines 271-274: get_verbrauch is back
FetchReturn ==
    /\ caller = "fetch"
    /\ fpc = "verbrauch" /\ ppc = "idle" /\ ret.status # "none"
    /\ fetch_ret' = ret
    /\ fpc' = "finally"
    /\ UNCHANGED <<caller, clientVars, zp_arg, zp_list, zp_body, exceptPortal>>

\* lines 275-276: finally: client.close()
FetchCloseAfterSuccessOnly ==
    /\ caller = "fetch"
    /\ fpc = "finally"
    /\ closed' = (fetch_ret.status = "returned")
    /\ closes' = closes + (IF fetch_ret.status = "returned" THEN 1 ELSE 0)
    /\ fpc' = "done"
    /\ UNCHANGED <<caller, access_token, api_key, ppc, op, authLocals, requests, hs, ret, ncalls,
                   responses, zp_arg, zp_list, zp_body, fetch_ret, exceptPortal>>
FetchFinally ==
    /\ caller = "fetch"
    /\ fpc = "finally"
    /\ closed' = TRUE
    /\ closes' = closes + 1
    /\ fpc' = "done"
    /\ UNCHANGED <<caller, access_token, api_key, ppc, op, authLocals, requests, hs, ret, ncalls,
                   responses, zp_arg, zp_list, zp_body, fetch_ret, exceptPortal>>

PortalNext ==
    \/ DirectCall \/ DirectClose
    \/ FetchZaehlpunkte \/ FetchSelect \/ FetchReturn \/ FetchFinally
    \/ AuthorizeGet \/ UsernamePost \/ PasswordPost \/ TokenPost \/ ConfigGet \/ DataGet

(***************************************************************************)
(* get_verbrauch: the parser of the consumption response (lines 216-245),  *)
(* applied to the same entries in the two shapes the portal answers in     *)
(***************************************************************************)

MaxEntries == 3

\* what an entry of the response can look like: (zeitpunktVon, wert)
EntryKinds ==
    { <<"isoZ", "number">>, <<"iso", "numstr">>,
      <<"absent", "number">>, <<"empty", "number">>, <<"isoZ", "absent">>,
      <<"text", "number">>, <<"isoZ", "text">>, <<"isoZ", "list">>,
      <<"number", "number">> }
\* the i-th entry of the period: its timestamp and value are its own
EntriesOf(kinds) == [i \in DOMAIN kinds |-> Entry(kinds[i][1], i, kinds[i][2], 10 + i)]

\* a daily object holding `es` under the key `key`
DayOf(key, es) ==
    CASE key = "values"  -> Day(TRUE, es, FALSE, <<>>)
      [] key = "wpiList" -> Day(FALSE, <<>>, TRUE, es)
      [] key = "both"    -> \* with a stale entry in the wpiList of a day that has values
                            Day(TRUE, es, TRUE, <<Entry("isoZ", 99, "number", 99)>>)

NoResult == [ok |-> FALSE, exc |-> "not called", readings |-> <<>>]


\* get_verbrauch on {"values": [...]}
VerbrauchOfDict ==
    /\ vb_flat = NoResult
    /\ vb_flat' = Verbrauch(DictBody(TRUE, vb_entries))
    /\ UNCHANGED <<vb_entries, vb_days, vb_nested, exceptVerbrauch>>

\* get_verbrauch on [{"values": [...]}, {"wpiList": [...]}]
VerbrauchOfList ==
    /\ vb_nested = NoResult
    /\ vb_nested' = Verbrauch(ListBody(vb_days))
    /\ UNCHANGED <<vb_entries, vb_days, vb_flat, exceptVerbrauch>>

VerbrauchNext == VerbrauchOfDict \/ VerbrauchOfList

(***************************************************************************)
(* compare_tariffs, _fetch_tariffs_econtrol, _parse_tariff                 *)
(* (tools/tariff_compare.py).  Money is kept in whole units so that no     *)
(* fraction is lost: the catalog's net amounts in 1/100 cent, gross        *)
(* amounts (x 1.2) in 1/1000 cent, and jahreskosten_eur, which the code    *)
(* rounds to two decimals, in cent.                                        *)
(***************************************************************************)

MaxTariffs == 6
\* top_n: int = 5
TopN == 5

\* the caller's arguments: kWh per year, ct/kWh, EUR per month
TariffArgs == { [kwh |-> 3000, preis |-> 20, gebuehr |-> 5],
                [kwh |-> 0, preis |-> 25, gebuehr |-> 3] }

\* aktuelle_jahreskosten, lines 204-207, in cent
AktuelleJahreskostenMutant(a) == a.kwh * a.preis + a.gebuehr * 100
AktuelleJahreskosten(a) == a.kwh * a.preis + a.gebuehr * 12 * 100
\* aktueller_tarif, lines 208-215
AktuellerTarif(a) ==
    [lieferant |-> "aktuell", energiepreis |-> a.preis, grundgebuehr |-> a.gebuehr,
     jahreskosten |-> AktuelleJahreskosten(a), quelle |-> "rechnung"]

\* What a whole _request_with_retry call can end with (SpecRetry): a response
\* that passed raise_for_status, or an exception.
RetryResults == {"response", "HTTPStatusError", "TimeoutException", "ConnectError", "ReadError"}
\* grid_response.json() and the choice of operators[0], lines 82-90
GridExc(body) ==
    CASE body = "operators"           -> "-"
      [] body = "no operators"        -> "ValueError"
      [] body = "operator without id" -> "KeyError"
      [] body = "not an object"       -> "AttributeError"
      [] body = "not json"            -> "JSONDecodeError"

\* One entry of ratedProducts, as far as _parse_tariff reads it.
\*   energyRateTotal, baseRate: net amounts in 1/100 cent; energyType = "text"
\*   for an energyRateTotal that is a string, not a number; costs = "null"
\*   for "calculatedProductEnergyCosts": null
Raw(brand, zoning, costs, etype, energy, base) ==
    [brandName |-> brand, rateZoningType |-> zoning, costs |-> costs,
     energyType |-> etype, energyRateTotal |-> energy, baseRate |-> base]
\* (the net energy cost of the fixed-price entry at position i: unsorted, with ties)
RawAt(i, k) ==
    LET CostAt == 100000 * (((i * 3) % 4) + 1) IN
    CASE k = "fixed"   -> Raw(i, "SIMPLE", "dict", "number", CostAt, 0)
      [] k = "complex" -> Raw(i, "COMPLEX", "dict", "number", CostAt, 0)
      [] k = "zero"    -> Raw(i, "SIMPLE", "dict", "number", 0, 0)
      [] k = "dust"    -> Raw(i, "SIMPLE", "dict", "number", 0, 30)
      [] k = "text"    -> Raw(i, "SIMPLE", "dict", "text", 0, 0)
      [] k = "null"    -> Raw(i, "SIMPLE", "null", "number", 0, 0)

\* round(x, 2) of an amount given in 1/1000 cent, in cent (round half to even)
Round2(x) ==
    LET q == x \div 1000
        r == x % 1000 IN
    IF r > 500 \/ (r = 500 /\ q % 2 = 1) THEN q + 1 ELSE q

\* _parse_tariff, lines 140-190: a Tariff, None, or the exception that leaves it
NoTariff == [lieferant |-> 0, jahreskosten |-> 0]
ParseTariff(raw, kwh) ==
    IF raw.rateZoningType = "COMPLEX" THEN [kind |-> "None", exc |-> "-", tarif |-> NoTariff]
    ELSE IF raw.costs = "null"
    THEN \* None.get(...): AttributeError, not named by the except clause of line 188
         [kind |-> "raise", exc |-> "AttributeError", tarif |-> NoTariff]
    ELSE IF raw.energyType = "text" /\ kwh > 0
    THEN \* "..." > 0: TypeError, caught at line 188
         [kind |-> "None", exc |-> "TypeError", tarif |-> NoTariff]
    ELSE LET energy == IF kwh > 0 /\ raw.energyRateTotal > 0 THEN raw.energyRateTotal ELSE 0
             jahreskosten == 12 * (energy + raw.baseRate) IN
         IF jahreskosten <= 0 THEN [kind |-> "None", exc |-> "-", tarif |-> NoTariff]
         ELSE [kind |-> "Tariff", exc |-> "-",
               tarif |-> [lieferant |-> raw.brandName, jahreskosten |-> Round2(jahreskosten)]]

\* the loop of lines 230-234: the accepted tariffs, or the exception of the
\* first entry that raises
RECURSIVE Accepted(_, _)
Accepted(raws, kwh) ==
    IF raws = <<>> THEN [ok |-> TRUE, exc |-> "-", list |-> <<>>]
    ELSE LET p == ParseTariff(Head(raws), kwh) IN
         IF p.kind = "raise" THEN [ok |-> FALSE, exc |-> p.exc, list |-> <<>>]
         ELSE LET rest == Accepted(Tail(raws), kwh) IN
              IF ~rest.ok THEN rest
              ELSE [ok |-> TRUE, exc |-> "-",
                    list |-> (IF p.kind = "Tariff" /\ p.tarif.jahreskosten > 0
                              THEN <<p.tarif>> ELSE <<>>) \o rest.list]

\* list.sort(key=lambda t: t.jahreskosten_eur), line 237: stable, ascending
RECURSIVE Insert(_, _)
Insert(t, sorted) ==
    IF sorted = <<>> THEN <<t>>
    ELSE IF t.jahreskosten < Head(sorted).jahreskosten THEN <<t>> \o sorted
    ELSE <<Head(sorted)>> \o Insert(t, Tail(sorted))
RECURSIVE SortByJahreskosten(_)
SortByJahreskosten(list) ==
    IF list = <<>> THEN <<>>
    ELSE Insert(list[Len(list)], SortByJahreskosten(SubSeq(list, 1, Len(list) - 1)))

\* alternativen[:top_n], line 238
TopMutant(list, n) == IF Len(list) <= n THEN list ELSE SubSeq(list, Len(list) - n + 1, Len(list))
Top(list, n) == IF Len(list) <= n THEN list ELSE SubSeq(list, 1, n)

NoComparison == [status |-> "none", exc |-> "-", aktueller_tarif |-> NoTariff, alternativen |-> <<>>]
\* TariffComparison(aktueller_tarif=..., alternativen=...)
Comparison(a, alts) ==
    [status |-> "returned", exc |-> "-", aktueller_tarif |-> AktuellerTarif(a), alternativen |-> alts]


\* except Exception, lines 222-228: the comparison without alternatives
LookupFailed(step) ==
    /\ t_failed' = step
    /\ t_result' = Comparison(t_args, <<>>)
    /\ tpc' = "returned"
    /\ UNCHANGED <<t_args, t_raw>>

\* client.get(_PAGE_URL), line 73
SessionGet ==
    /\ tpc = "session"
    /\ \E r \in {"response", "error status", "TimeoutException", "ConnectError"} :
         \* no raise_for_status here: only a transport error raises
         IF r \in {"response", "error status"}
         THEN tpc' = "grid" /\ UNCHANGED <<t_args, t_failed, t_raw, t_result>>
         ELSE LookupFailed("session")
    /\ UNCHANGED exceptTariffs

\* the grid-operator request and the choice of the operator, lines 77-90
GridOperators ==
    /\ tpc = "grid"
    /\ \E r \in RetryResults,
          body \in {"operators", "no operators", "operator without id", "not an object", "not json"} :
         IF r # "response" THEN LookupFailed("grid")
         ELSE IF GridExc(body) # "-" THEN LookupFailed("operators")
         ELSE tpc' = "rate" /\ UNCHANGED <<t_args, t_failed, t_raw, t_result>>
    /\ UNCHANGED exceptTariffs

\* the rate query, lines 122-129: ratedProducts of the answer
RateQuery ==
    /\ tpc = "rate"
    /\ \E r \in RetryResults :
         IF r # "response" THEN LookupFailed("rate")
         ELSE \/ LookupFailed("rate body")      \* not JSON, or not an object
              \/ \E n \in 0..MaxTariffs :
                 \E kinds \in [1..n -> {"fixed", "complex", "zero", "dust", "text", "null"}] :
                    /\ t_raw' = [i \in DOMAIN kinds |-> RawAt(i, kinds[i])]
                    /\ tpc' = "parse"
                    /\ UNCHANGED <<t_args, t_failed, t_result>>
    /\ UNCHANGED exceptTariffs

\* lines 230-245: parse every entry, sort, keep the first top_n, return
ParseSortReturn ==
    /\ tpc = "parse"
    /\ LET acc == Accepted(t_raw, t_args.kwh) IN
       IF acc.ok
       THEN /\ t_result' = Comparison(t_args, Top(SortByJahreskosten(acc.list), TopN))
            /\ tpc' = "returned"
       ELSE /\ t_result' = [NoComparison EXCEPT !.status = "raised", !.exc = acc.exc]
            /\ tpc' = "raised"
    /\ UNCHANGED <<t_args, t_failed, t_raw>>
    /\ UNCHANGED exceptTariffs

TariffsNext == SessionGet \/ GridOperators \/ RateQuery \/ ParseSortReturn

(***************************************************************************)
(* run_agent, _parse_tool_call, _execute_tool (agent.py)                   *)
(***************************************************************************)

\* max_turns, an argument of run_agent
MaxTurns == 2

VALID_TOOLS ==
    {"parse_invoice", "fetch_smart_meter_data", "compare_tariffs",
     "calculate_beg_advantage", "generate_savings_report"}
UnknownTool == "send_email"

\* state[...] = ... of each branch
StateKeyOfMutant(name) ==
    CASE name = "parse_invoice"           -> "invoice"
      [] name = "fetch_smart_meter_data"  -> "smart_meter"
      [] name = "compare_tariffs"         -> "tariff_comparison"
      [] name = "calculate_beg_advantage" -> "tariff_comparison"
      [] name = "generate_savings_report" -> "report"
StateKeyOf(name) ==
    CASE name = "parse_invoice"           -> "invoice"
      [] name = "fetch_smart_meter_data"  -> "smart_meter"
      [] name = "compare_tariffs"         -> "tariff_comparison"
      [] name = "calculate_beg_advantage" -> "beg_calculation"
      [] name = "generate_savings_report" -> "report"

\* A JSON value of an argument: absent from the mapping, a number, a string
\* that is no number, a string, or null.
Num(n) == [t |-> "number", v |-> n]
Str(n) == [t |-> "string", v |-> n]
ArgKeys ==
    {"file_path", "email", "password", "zaehlpunkt", "plz", "jahresverbrauch_kwh",
     "aktueller_lieferant", "lieferant", "aktueller_energiepreis", "energiepreis",
     "energiepreis_ct_kwh", "aktuelle_grundgebuehr", "grundgebuehr",
     "grundgebuehr_eur_monat", "aktueller_energiepreis_ct_kwh"}
NoArgs == [k \in ArgKeys |-> [t |-> "absent", v |-> 0]]
FileArgs(n) == ("file_path" :> Str(n)) @@ NoArgs
LoginArgs == ("email" :> Str(1)) @@ ("password" :> Str(1)) @@ NoArgs
PriceArgs == ("energiepreis" :> Num(30)) @@ ("energiepreis_ct_kwh" :> Num(40))
             @@ ("jahresverbrauch_kwh" :> Num(2500)) @@ NoArgs
TextPriceArgs == ("aktueller_energiepreis" :> [t |-> "text", v |-> 0]) @@ ("aktueller_energiepreis_ct_kwh" :> [t |-> "text", v |-> 0]) @@ NoArgs

\* args.get(key, default)
ArgGet(args, key, default) == IF args[key].t = "absent" THEN default ELSE args[key]
\* float(x): the number, or the exception
FloatOf(x) ==
    CASE x.t = "number" -> [ok |-> TRUE, exc |-> "-", v |-> x.v]
      [] x.t = "text"   -> [ok |-> FALSE, exc |-> "ValueError", v |-> 0]
      [] x.t = "string" -> [ok |-> FALSE, exc |-> "ValueError", v |-> 0]
      [] OTHER          -> [ok |-> FALSE, exc |-> "TypeError", v |-> 0]

\* The invoices parse_invoice can return, by the file it is given.
InvoiceOf(n) ==
    [plz |-> Str(1000 + n), jahresverbrauch_kwh |-> Num(3000 + n), lieferant |-> Str(n),
     energiepreis_ct_kwh |-> Num(20 + n), grundgebuehr_eur_monat |-> Num(4 + n)]

\* One entry of the state dict: absent, or the value a tool produced in the
\* at-th _execute_tool call (data: the invoice's number; for a comparison the
\* energy price it was computed from; 0 for other values).
EntryOf(name, at, data) == [present |-> TRUE, by |-> name, at |-> at, data |-> data]
\* (the keys are those _execute_tool writes: lines 53, 62, 86, 106, 122)
EmptyState ==
    [k \in {"invoice", "smart_meter", "tariff_comparison", "beg_calculation", "report"} |->
        [present |-> FALSE, by |-> "-", at |-> 0, data |-> 0]]

\* getattr(inv, field, dflt) if inv else dflt, with inv = state.get("invoice")
FromInvoice(st, field, dflt) ==
    IF st["invoice"].present THEN InvoiceOf(st["invoice"].data)[field] ELSE dflt

\* lines 79-81: aktueller_energiepreis of the compare_tariffs tool
ComparePreisStateFirst(args, st) ==
    IF st["invoice"].present THEN FloatOf(InvoiceOf(st["invoice"].data)["energiepreis_ct_kwh"])
    ELSE FloatOf(ArgGet(args, "aktueller_energiepreis",
                   ArgGet(args, "energiepreis", ArgGet(args, "energiepreis_ct_kwh", Num(0)))))
ComparePreis(args, st) ==
    FloatOf(ArgGet(args, "aktueller_energiepreis",
              ArgGet(args, "energiepreis",
                ArgGet(args, "energiepreis_ct_kwh",
                  FromInvoice(st, "energiepreis_ct_kwh", Num(0))))))
\* lines 75-76
CompareVerbrauch(args, st) ==
    FloatOf(ArgGet(args, "jahresverbrauch_kwh", FromInvoice(st, "jahresverbrauch_kwh", Num(0))))
\* lines 82-84
CompareGebuehr(args, st) ==
    FloatOf(ArgGet(args, "aktuelle_grundgebuehr",
              ArgGet(args, "grundgebuehr",
                ArgGet(args, "grundgebuehr_eur_monat",
                  FromInvoice(st, "grundgebuehr_eur_monat", Num(0))))))
\* lines 102-104: aktueller_energiepreis_ct_kwh of the calculate_beg_advantage tool
BegPreis(args, st) ==
    FloatOf(ArgGet(args, "aktueller_energiepreis_ct_kwh",
              ArgGet(args, "energiepreis_ct_kwh",
                ArgGet(args, "energiepreis",
                  FromInvoice(st, "energiepreis_ct_kwh", Num(0))))))


\* The text _execute_tool returns, by its kind:
\*   "ok"           the tool's status text
\*   "error"        "Fehler bei {name}: {e}"                     (line 130)
\*   "need invoice" "Fehler: Keine Rechnungsdaten vorhanden..."  (line 114)
\*   "unknown"      "Unbekanntes Tool: {name}"                   (line 126)
ToolText(kind, name, exc) == [kind |-> kind, tool |-> name, exc |-> exc]
Done(name, st, at, data) ==
    [raised |-> FALSE, text |-> ToolText("ok", name, "-"),
     state |-> [st EXCEPT ![StateKeyOf(name)] = EntryOf(name, at, data)]]
\* except Exception (line 128): every exception a branch can raise is one
ExceptExceptionMutant(exc) == exc \in {"Exception", "ValueError", "TypeError"}
ExceptException(exc) == TRUE
\* an exception inside the try block: the failure text of line 130, or, were it
\* not caught, the exception leaving _execute_tool
FailedAfterStore(name, st, exc) ==
    [raised |-> FALSE, text |-> ToolText("error", name, exc),
     state |-> IF name \in VALID_TOOLS
               THEN [st EXCEPT ![StateKeyOf(name)] = EntryOf(name, 0, 0)] ELSE st]
Failed(name, st, exc) ==
    IF ExceptException(exc)
    THEN [raised |-> FALSE, text |-> ToolText("error", name, exc), state |-> st]
    ELSE [raised |-> TRUE, text |-> ToolText("-", name, exc), state |-> st]
\* "invoice" in state (line 113)
HasInvoiceMutant(st) == TRUE
HasInvoice(st) == st["invoice"].present

\* the first exception among the argument conversions of a branch
FirstExc(rs) ==
    IF \A i \in DOMAIN rs : rs[i].ok THEN "-"
    ELSE rs[CHOOSE i \in DOMAIN rs : ~rs[i].ok /\ \A j \in 1..(i - 1) : rs[j].ok].exc

\* _execute_tool(name, args, state), lines 44-130; `at` numbers the call
ExecuteTool(name, args, st, out, at) ==
    CASE name = "parse_invoice" ->
            IF args["file_path"].t = "absent" THEN Failed(name, st, "KeyError")
            ELSE IF out = "raises" THEN Failed(name, st, "Exception")
            ELSE Done(name, st, at, args["file_path"].v)
      [] name = "fetch_smart_meter_data" ->
            IF args["email"].t = "absent" \/ args["password"].t = "absent"
            THEN Failed(name, st, "KeyError")
            ELSE IF out = "raises" THEN Failed(name, st, "Exception")
            ELSE Done(name, st, at, 0)
      [] name = "compare_tariffs" ->
            LET exc == FirstExc(<<CompareVerbrauch(args, st), ComparePreis(args, st),
                                  CompareGebuehr(args, st)>>) IN
            IF exc # "-" THEN Failed(name, st, exc)
            ELSE IF out = "raises" THEN Failed(name, st, "Exception")
            ELSE Done(name, st, at, ComparePreis(args, st).v)
      [] name = "calculate_beg_advantage" ->
            LET exc == FirstExc(<<CompareVerbrauch(args, st), BegPreis(args, st)>>) IN
            IF exc # "-" THEN Failed(name, st, exc)
            ELSE IF out = "raises" THEN Failed(name, st, "Exception")
            ELSE Done(name, st, at, BegPreis(args, st).v)
      [] name = "generate_savings_report" ->
            IF ~HasInvoice(st)
            THEN [raised |-> FALSE, text |-> ToolText("need invoice", name, "-"), state |-> st]
            ELSE IF ~st["invoice"].present THEN Failed(name, st, "KeyError")   \* state["invoice"]
            ELSE IF out = "raises" THEN Failed(name, st, "Exception")
            ELSE Done(name, st, at, 0)
      [] OTHER ->
            [raised |-> FALSE, text |-> ToolText("unknown", name, "-"), state |-> st]

\* One tool-invocation block of a reply, as _parse_tool_call reads it:
\*   json: the text between the tags parses as JSON; name: the value of its
\*   "name" field ("" when there is none); args: its arguments/parameters
Block(json, name, args) == [json |-> json, name |-> name, args |-> args]
Blocks ==
    { Block(TRUE, "parse_invoice", NoArgs), Block(TRUE, "parse_invoice", FileArgs(1)),
      Block(TRUE, "parse_invoice", FileArgs(2)),
      Block(TRUE, "fetch_smart_meter_data", NoArgs), Block(TRUE, "fetch_smart_meter_data", LoginArgs),
      Block(TRUE, "compare_tariffs", NoArgs), Block(TRUE, "compare_tariffs", PriceArgs),
      Block(TRUE, "compare_tariffs", TextPriceArgs),
      Block(TRUE, "calculate_beg_advantage", PriceArgs), Block(TRUE, "calculate_beg_advantage", TextPriceArgs),
      Block(TRUE, "generate_savings_report", NoArgs),
      Block(TRUE, UnknownTool, NoArgs), Block(TRUE, "", NoArgs),
      Block(FALSE, "parse_invoice", FileArgs(1)), Block(FALSE, UnknownTool, NoArgs),
      Block(FALSE, "", NoArgs) }

\* One piece of the reply's text: "<", "/", ">", a tag name (tool_call stands
\* for tool_call and the five tool names), other text, "{" for a text {...}
\* that starts with "{" and ends with "}", or "{-" for a text that starts with
\* "{" and does not end with "}"; `body` is the reading of a "{" or "{-" text
Tok(c, b) == [c |-> c, body |-> b]
Ch(c) == Tok(c, Block(FALSE, "", NoArgs))
\* _TOOL_TAG_CLEANUP_RE, lines 142-144: the length of the tag </?name> that
\* starts at s[i], 0 when none starts there
TagAt(s, i) ==
    IF i + 2 <= Len(s) /\ s[i].c = "<" /\ s[i + 1].c = "tool_call" /\ s[i + 2].c = ">" THEN 3
    ELSE IF i + 3 <= Len(s) /\ s[i].c = "<" /\ s[i + 1].c = "/" /\ s[i + 2].c = "tool_call"
            /\ s[i + 3].c = ">" THEN 4
    ELSE 0
\* _TOOL_TAG_CLEANUP_RE.sub("", content), line 222: one pass from the left,
\* going on behind each tag it removes
RECURSIVE CleanupFrom(_, _)
CleanupFrom(s, i) ==
    IF i > Len(s) THEN <<>>
    ELSE IF TagAt(s, i) > 0 THEN CleanupFrom(s, i + TagAt(s, i))
    ELSE <<s[i]>> \o CleanupFrom(s, i + 1)
\* _TOOL_CALL_RE.search(content), lines 137-140 and 153: the leftmost opening
\* tag that is followed by "{" and, later, by a "}" with a closing tag behind
\* it; group 1 runs from that "{" to the first such "}" (.*? with DOTALL runs
\* across tags). Read as _parse_tool_call reads it: the block itself, or, for
\* a text that spans several pieces, no JSON with the first "name" in it
\* (line 162).
ToolCallMatch(s) ==
    LET Ends(i) == {j \in (i + 3)..Len(s) : s[j].c = "{" /\ TagAt(s, j + 1) = 4}
        starts == {i \in 1..Len(s) : /\ TagAt(s, i) = 3 /\ i + 3 <= Len(s)
                                      /\ s[i + 3].c \in {"{", "{-"} /\ Ends(i) # {}}
    IN  IF starts = {} THEN <<>>
        ELSE LET i == CHOOSE i \in starts : \A k \in starts : i <= k
                 j == CHOOSE j \in Ends(i) : \A k \in Ends(i) : j <= k
                 named == {k \in (i + 3)..j : s[k].body.name # ""}
             IN  IF j = i + 3 THEN <<s[j].body>>
                 ELSE <<Block(FALSE, IF named = {} THEN ""
                                     ELSE s[CHOOSE k \in named : \A l \in named : k <= l].body.name,
                              NoArgs)>>

NoCall == [some |-> FALSE, name |-> "", args |-> NoArgs]
\* _parse_tool_call, lines 147-178: the first block decides
ParseToolCallStrict(reply) ==
    IF reply = <<>> \/ ~Head(reply).json \/ Head(reply).name \notin VALID_TOOLS THEN NoCall
    ELSE [some |-> TRUE, name |-> Head(reply).name, args |-> Head(reply).args]
ParseToolCallAnyName(reply) ==
    IF reply = <<>> \/ Head(reply).name = "" THEN NoCall
    ELSE [some |-> TRUE, name |-> Head(reply).name,
          args |-> IF Head(reply).json THEN Head(reply).args ELSE NoArgs]
ParseToolCall(reply) ==
    IF reply = <<>> THEN NoCall
    ELSE LET b == Head(reply) IN
         IF ~b.json
         THEN (IF b.name \in VALID_TOOLS THEN [some |-> TRUE, name |-> b.name, args |-> NoArgs]
               ELSE NoCall)
         ELSE IF b.name \notin VALID_TOOLS THEN NoCall
         ELSE [some |-> TRUE, name |-> b.name, args |-> b.args]

\* one entry of the transcript (lines 202, 203, 233, 239-242)
MsgToolRole(role, kind, tool) ==
    [role |-> IF role = "user" /\ tool # "" THEN "tool" ELSE role, kind |-> kind, tool |-> tool]
Msg(role, kind, tool) == [role |-> role, kind |-> kind, tool |-> tool]
\* what run_agent returns (lines 224 and 246): a text and the state
Ret(kind, text, st) == [kind |-> kind, text |-> text, state |-> st]
\* for turn in range(max_turns), line 206
TurnInRangeInclusive(t) == t <= MaxTurns
TurnInRange(t) == t < MaxTurns
NoLast == [name |-> "", args |-> NoArgs, before |-> EmptyState, raised |-> FALSE,
           text |-> ToolText("-", "", "-")]


\* one _execute_tool call and what it leaves behind
Execute(name, args, out) ==
    LET res == ExecuteTool(name, args, state, out, a_calls + 1) IN
    /\ state' = res.state
    /\ a_calls' = a_calls + 1
    /\ a_last' = [name |-> name, args |-> args, before |-> state, raised |-> res.raised,
                  text |-> res.text]

\* lines 206-233: the model call, the parse of its reply, and either the final
\* answer or the assistant entry of the transcript
Chat ==
    /\ apc = "chat"
    /\ TurnInRange(turn)
    /\ a_chats' = a_chats + 1
    /\ \/ \* client.chat raises (model unreachable, timeout after 120 s): no try
          \* block of run_agent encloses the call
          /\ apc' = "raised"
          /\ UNCHANGED <<a_caller, turn, state, messages, pending, a_calls, a_reply, a_last, a_ret>>
       \/ LET Open == <<Ch("<"), Ch("tool_call"), Ch(">")>>
              Close == <<Ch("<"), Ch("/"), Ch("tool_call"), Ch(">")>>
              Wrapped(b) == Open \o <<Tok("{", b)>> \o Close
          IN  \E content \in {Wrapped(b) : b \in Blocks}
                     \cup {<<>>, <<Ch("text")>>,
                           <<Ch("text")>> \o Wrapped(Block(TRUE, "parse_invoice", FileArgs(1))),
                           <<Ch("text")>> \o Wrapped(Block(TRUE, UnknownTool, NoArgs)) \o <<Ch("text")>>,
                           Open \o <<Tok("{", Block(TRUE, "parse_invoice", FileArgs(1)))>>,
                           <<Ch("text")>> \o Close \o Open,
                           <<Ch("<")>> \o Open \o <<Ch("tool_call"), Ch(">")>>,
                           Wrapped(Block(TRUE, "parse_invoice", FileArgs(1)))
                              \o Wrapped(Block(TRUE, "compare_tariffs", NoArgs)),
                           Wrapped(Block(TRUE, UnknownTool, NoArgs))
                              \o Wrapped(Block(TRUE, "parse_invoice", FileArgs(1))),
                           Wrapped(Block(FALSE, "", NoArgs))
                              \o Wrapped(Block(TRUE, "parse_invoice", FileArgs(1))),
                           Open \o <<Ch("text")>> \o Close
                              \o Wrapped(Block(TRUE, "parse_invoice", FileArgs(1))),
                           Open \o <<Tok("{-", Block(FALSE, "", NoArgs))>> \o Close
                              \o Wrapped(Block(TRUE, "parse_invoice", FileArgs(1)))} :
                LET parsed == ParseToolCall(ToolCallMatch(content)) IN
                /\ a_reply' = content
                /\ IF ~parsed.some
                   THEN /\ apc' = "returned"
                        /\ a_ret' = Ret("answer", CleanupFrom(content, 1), state)
                        /\ UNCHANGED <<a_caller, turn, state, messages, pending, a_calls, a_last>>
                   ELSE /\ messages' = Append(messages, Msg("assistant", "reply", parsed.name))
                        /\ pending' = parsed
                        /\ apc' = "dispatch"
                        /\ UNCHANGED <<a_caller, turn, state, a_calls, a_last, a_ret>>
    /\ UNCHANGED exceptAgent

\* lines 236-246: the tool is executed, its text is fed back as a user entry,
\* and the loop goes on or, after the last turn, ends with the fixed message
Dispatch ==
    /\ apc = "dispatch"
    /\ \E out \in {"returns", "raises"} :   \* what the call of the underlying collaborator does
         LET res == ExecuteTool(pending.name, pending.args, state, out, a_calls + 1) IN
         /\ Execute(pending.name, pending.args, out)
         /\ IF res.raised
            THEN /\ apc' = "raised"
                 /\ UNCHANGED <<turn, messages, a_ret>>
            ELSE /\ messages' = Append(messages, Msg("user", res.text.kind, res.text.tool))
                 /\ turn' = turn + 1
                 /\ IF TurnInRange(turn + 1)
                    THEN apc' = "chat" /\ UNCHANGED a_ret
                    ELSE apc' = "returned" /\ a_ret' = Ret("too many steps", <<>>, res.state)
    /\ pending' = NoCall
    /\ UNCHANGED <<a_caller, a_chats, a_reply>>
    /\ UNCHANGED exceptAgent

\* _execute_tool called on its own, with any tool name
DirectExecute ==
    /\ apc = "direct"
    /\ a_calls < MaxTurns
    /\ \E name \in VALID_TOOLS \cup {UnknownTool}, out \in {"returns", "raises"} :
         \E args \in {NoArgs, FileArgs(1), LoginArgs, PriceArgs, TextPriceArgs,
                       ("aktueller_energiepreis" :> Num(10)) @@ PriceArgs,
                       ("energiepreis_ct_kwh" :> Num(40)) @@ NoArgs,
                       ("energiepreis" :> Str(3)) @@ ("energiepreis_ct_kwh" :> Num(40)) @@ NoArgs} :
            Execute(name, args, out)
    /\ UNCHANGED <<a_caller, apc, turn, messages, pending, a_chats, a_reply, a_ret>>
    /\ UNCHANGED exceptAgent

AgentNext == Chat \/ Dispatch \/ DirectExecute

(***************************************************************************)
(* run_pipeline (main.py)                                                  *)
(***************************************************************************)

\* one call of _progress(on_progress, step_id, status, message), lines 73-78
EventSkipAsStarted(step, status) == <<step, IF status = "skipped" THEN "started" ELSE status>>
Event(step, status) == <<step, status>>

\* What an except clause of run_pipeline does with the exception of its step:
\* the invoice step re-raises (line 102), the other steps only report it
\* (lines 119-121, 154-156, 176-178, 199-200).
OnStepErrorSwallowed(step) == "continue"
OnStepErrorTariffFatal(step) == IF step \in {"invoice", "tariff"} THEN "raise" ELSE "continue"
OnStepErrorSaveFatal(step) == IF step \in {"invoice", "save"} THEN "raise" ELSE "continue"
OnStepError(step) == IF step = "invoice" THEN "raise" ELSE "continue"

NoInvoice == [ok |-> FALSE, jahresverbrauch_kwh |-> 0]
NoSmartMeter == [fetched |-> FALSE, jahresverbrauch_kwh |-> 0]
NoReport == [made |-> FALSE, smart_meter |-> FALSE, tariff_comparison |-> "None", beg_comparison |-> "None"]
NoPipelineRet == [status |-> "none", exc |-> "-", report |-> NoReport, analysis_id |-> "None"]

\* lines 127-131: smart meter > invoice
JahresverbrauchOfAnySeries(sm, inv) ==
    IF sm.fetched THEN sm.jahresverbrauch_kwh ELSE inv.jahresverbrauch_kwh
Jahresverbrauch(sm, inv) ==
    IF sm.fetched /\ sm.jahresverbrauch_kwh > 0 THEN sm.jahresverbrauch_kwh
    ELSE inv.jahresverbrauch_kwh

\* if wn_email and wn_password (line 106)
HasCredentialsEither(a) == a.email \/ a.password
HasCredentials(a) == a.email /\ a.password


\* the exception of a step: raised to the caller, or the run goes on at `next`
StepError(step, exc, next) ==
    IF OnStepError(step) = "raise"
    THEN /\ pl_pc' = "raised"
         /\ pl_ret' = [status |-> "raised", exc |-> exc, report |-> NoReport, analysis_id |-> "None"]
    ELSE /\ pl_pc' = next
         /\ UNCHANGED pl_ret

\* one call of a collaborator: the consumption handed to it (0 where none is)
\* and whether it returned or raised
Call(fn, kwh, out) == [fn |-> fn, kwh |-> kwh, out |-> out]

\* Step 1, lines 93-102
InvoiceStep ==
    /\ pl_pc = "invoice"
    /\ \/ \E kwh \in {3000} :   \* the yearly consumption the extracted invoice declares
            /\ pl_calls' = Append(pl_calls, Call("parse_invoice", 0, "returned"))
            /\ pl_invoice' = [ok |-> TRUE, jahresverbrauch_kwh |-> kwh]
            /\ pl_events' = pl_events \o <<Event("invoice", "started"), Event("invoice", "done")>>
            /\ pl_pc' = "smartmeter"
            /\ UNCHANGED pl_ret
       \/ /\ pl_calls' = Append(pl_calls, Call("parse_invoice", 0, "raised"))
          /\ pl_events' = pl_events \o <<Event("invoice", "started"), Event("invoice", "error")>>
          /\ StepError("invoice", "parse_invoice failed", "smartmeter")
          /\ UNCHANGED pl_invoice
    /\ UNCHANGED <<pl_args, pl_smart, pl_verbrauch, pl_tariff, pl_beg, pl_report>>
    /\ UNCHANGED exceptPipeline

\* Step 2 and the choice of the consumption, lines 105-131
SmartMeterStep ==
    /\ pl_pc = "smartmeter"
    /\ IF HasCredentials(pl_args)
       THEN \/ \* SmartMeterData.jahresverbrauch_kwh of the fetched series: 0 when it
               \* spans no day (models.py, lines 57-61), else the projection of the
               \* readings' sum, negative when the readings sum below zero
               \E proj \in {0, 2800, -100} :
                 /\ pl_calls' = Append(pl_calls, Call("fetch_smart_meter_data", 0, "returned"))
                 /\ pl_smart' = [fetched |-> TRUE, jahresverbrauch_kwh |-> proj]
                 /\ pl_events' = pl_events \o <<Event("smartmeter", "started"), Event("smartmeter", "done")>>
                 /\ pl_pc' = "tariff"
                 /\ UNCHANGED pl_ret
            \/ /\ pl_calls' = Append(pl_calls, Call("fetch_smart_meter_data", 0, "raised"))
               /\ pl_events' = pl_events \o <<Event("smartmeter", "started"), Event("smartmeter", "error")>>
               /\ StepError("smartmeter", "fetch_smart_meter_data failed", "tariff")
               /\ UNCHANGED pl_smart
       ELSE /\ pl_events' = Append(pl_events, Event("smartmeter", "skipped"))
            /\ pl_pc' = "tariff"
            /\ UNCHANGED <<pl_calls, pl_smart, pl_ret>>
    /\ pl_verbrauch' = Jahresverbrauch(pl_smart', pl_invoice)
    /\ UNCHANGED <<pl_args, pl_invoice, pl_tariff, pl_beg, pl_report>>
    /\ UNCHANGED exceptPipeline

\* Step 3, lines 134-156
TariffStep ==
    /\ pl_pc = "tariff"
    /\ \/ \E r \in {"alternativen", "keine alternativen"} :
            /\ pl_calls' = Append(pl_calls, Call("compare_tariffs", pl_verbrauch, "returned"))
            /\ pl_tariff' = r
            /\ pl_events' = pl_events \o <<Event("tariff", "started"), Event("tariff", "done")>>
            /\ pl_pc' = "beg"
            /\ UNCHANGED pl_ret
       \/ /\ pl_calls' = Append(pl_calls, Call("compare_tariffs", pl_verbrauch, "raised"))
          /\ pl_events' = pl_events \o <<Event("tariff", "started"), Event("tariff", "error")>>
          /\ StepError("tariff", "compare_tariffs failed", "beg")
          /\ UNCHANGED pl_tariff
    /\ UNCHANGED <<pl_args, pl_invoice, pl_smart, pl_verbrauch, pl_beg, pl_report>>
    /\ UNCHANGED exceptPipeline

\* Step 4, lines 159-178
BegStep ==
    /\ pl_pc = "beg"
    /\ \/ \E r \in {"beste_beg", "keine beg"} :
            /\ pl_calls' = Append(pl_calls, Call("compare_beg_options", pl_verbrauch, "returned"))
            /\ pl_beg' = r
            /\ pl_events' = pl_events \o <<Event("beg", "started"), Event("beg", "done")>>
            /\ pl_pc' = "report"
            /\ UNCHANGED pl_ret
       \/ /\ pl_calls' = Append(pl_calls, Call("compare_beg_options", pl_verbrauch, "raised"))
          /\ pl_events' = pl_events \o <<Event("beg", "started"), Event("beg", "error")>>
          /\ StepError("beg", "compare_beg_options failed", "report")
          /\ UNCHANGED pl_beg
    /\ UNCHANGED <<pl_args, pl_invoice, pl_smart, pl_verbrauch, pl_tariff, pl_report>>
    /\ UNCHANGED exceptPipeline

\* Step 5, lines 181-189: SavingsReport(...) and generate_report, which only
\* formats the values it is given
ReportStep ==
    /\ pl_pc = "report"
    /\ pl_events' = Append(pl_events, Event("report", "started"))
    /\ pl_calls' = Append(pl_calls, Call("generate_report", 0, "returned"))
    /\ pl_report' = [made |-> TRUE, smart_meter |-> pl_smart.fetched,
                     tariff_comparison |-> pl_tariff, beg_comparison |-> pl_beg]
    /\ pl_pc' = "save"
    /\ UNCHANGED <<pl_args, pl_invoice, pl_smart, pl_verbrauch, pl_tariff, pl_beg, pl_ret>>
    /\ UNCHANGED exceptPipeline

\* lines 192-203: the store is opened, the analysis saved and the store closed,
\* each of which may raise inside the try block; then the report is returned
SaveStep ==
    /\ pl_pc = "save"
    /\ \E out \in {"saved", "open raises", "save raises", "close raises"} :
         /\ pl_calls' = pl_calls \o
               (CASE out = "open raises" -> <<Call("GridbertStorage", 0, "raised")>>
                  [] out = "save raises" -> <<Call("GridbertStorage", 0, "returned"),
                                              Call("save_analysis", 0, "raised")>>
                  [] out = "close raises" -> <<Call("GridbertStorage", 0, "returned"),
                                               Call("save_analysis", 0, "returned"),
                                               Call("storage.close", 0, "raised")>>
                  [] OTHER -> <<Call("GridbertStorage", 0, "returned"),
                                Call("save_analysis", 0, "returned"),
                                Call("storage.close", 0, "returned")>>)
         /\ IF out = "saved" \/ OnStepError("save") = "continue"
            THEN /\ pl_events' = Append(pl_events, Event("report", "done"))
                 /\ pl_pc' = "returned"
                 /\ pl_ret' = [status |-> "returned", exc |-> "-", report |-> pl_report,
                               analysis_id |-> IF out \in {"saved", "close raises"}
                                               THEN "id" ELSE "None"]
            ELSE /\ StepError("save", "save_analysis failed", "returned")
                 /\ UNCHANGED pl_events
    /\ UNCHANGED <<pl_args, pl_invoice, pl_smart, pl_verbrauch, pl_tariff, pl_beg, pl_report>>
    /\ UNCHANGED exceptPipeline

PipelineNext ==
    InvoiceStep \/ SmartMeterStep \/ TariffStep \/ BegStep \/ ReportStep \/ SaveStep

(***************************************************************************)
(* The web runs: start_pipeline_run (web/sse.py), stream (web/app.py)      *)
(***************************************************************************)

MaxProgress == 2    \* progress events of one run
\* run ids (uuid4().hex[:12], sse.py line 27) and requests of the stream
\* endpoint: two of each, so that runs meet and two requests name one run
Runs == {"run1", "run2"}
Listeners == {"req1", "req2"}

\* the event on_progress puts (sse.py line 33); n numbers the run's progress events
ProgressEvent(n) == [step |-> "progress", status |-> "-", n |-> n]
\* the event put when run_pipeline returned (line 44) or raised (line 47)
CompleteEventAsProgress(outcome) ==
    [step |-> IF outcome = "returned" THEN "complete" ELSE "report", status |-> "error", n |-> 0]
CompleteEvent(outcome) ==
    [step |-> "complete", status |-> IF outcome = "returned" THEN "done" ELSE "error", n |-> 0]
\* q.put(ev) in the worker of run r: q is the queue the closure of _run holds,
\* whether or not the registry still has it
PutFirst(r, ev) ==
    /\ run_queue' = [run_queue EXCEPT ![r] = <<ev>> \o @]
    /\ run_put' = [run_put EXCEPT ![r] = Append(@, ev)]
PutOnSharedQueue(r, ev) ==
    /\ run_queue' = [q \in Runs |-> Append(run_queue[q], ev)]
    /\ run_put' = [run_put EXCEPT ![r] = Append(@, ev)]
Put(r, ev) ==
    /\ run_queue' = [run_queue EXCEPT ![r] = Append(@, ev)]
    /\ run_put' = [run_put EXCEPT ![r] = Append(@, ev)]
\* cleanup_run, lines 67-69
CleanupRun(run_id) == active_runs' = active_runs \ {run_id}
\* one SSE event the generator yields (app.py lines 71, 85, 91, 96)
Sse(event, n, message) == [event |-> event, n |-> n, message |-> message]

\* start_pipeline_run, lines 21-30 and 57-59: a fresh run id, its queue
\* registered, its thread started
StartPipelineRun ==
    /\ \E r \in Runs :
         /\ worker[r] = "idle"
         /\ active_runs' = active_runs \cup {r}
         /\ worker' = [worker EXCEPT ![r] = "running"]
    /\ UNCHANGED <<run_queue, run_put, l_pc, l_run, l_got>>
    /\ UNCHANGED exceptSse

\* run_pipeline calls on_progress (lines 32-33)
OnProgress(r) ==
    /\ worker[r] = "running"
    /\ Len(run_put[r]) < MaxProgress
    /\ Put(r, ProgressEvent(Len(run_put[r]) + 1))
    /\ UNCHANGED <<active_runs, worker, l_pc, l_run, l_got>>
    /\ UNCHANGED exceptSse

\* run_pipeline returns or raises, and _run puts the complete event (lines 35-47);
\* the thread ends
RunEnds(r) ==
    /\ worker[r] = "running"
    /\ \E outcome \in {"returned", "raised"} :
         /\ Put(r, CompleteEvent(outcome))
         /\ worker' = [worker EXCEPT ![r] = outcome]
    /\ UNCHANGED <<active_runs, l_pc, l_run, l_got>>
    /\ UNCHANGED exceptSse

\* stream(run_id), app.py lines 60-64: the queue is looked up once, 404 when
\* the registry has no such run
Stream(l) ==
    /\ l_pc[l] = "idle"
    /\ \E run_id \in Runs :
         /\ l_run' = [l_run EXCEPT ![l] = run_id]
         /\ l_pc' = [l_pc EXCEPT ![l] = IF run_id \in active_runs THEN "streaming" ELSE "404"]
    /\ UNCHANGED <<active_runs, worker, run_queue, run_put, l_got>>
    /\ UNCHANGED exceptSse

\* generate(), lines 66-96: q.get returns an event, which is yielded; the
\* complete event ends the stream and removes the run
Generate(l) ==
    /\ l_pc[l] = "streaming"
    /\ run_queue[l_run[l]] # <<>>
    /\ LET event == Head(run_queue[l_run[l]]) IN
       /\ run_queue' = [run_queue EXCEPT ![l_run[l]] = Tail(@)]
       /\ IF event.step = "complete"
          THEN /\ l_got' = [l_got EXCEPT ![l] =
                       Append(@, IF event.status = "done" THEN Sse("complete", 0, "-")
                                 ELSE Sse("error", 0, "pipeline"))]
               /\ CleanupRun(l_run[l])
               /\ l_pc' = [l_pc EXCEPT ![l] = "ended"]
          ELSE /\ l_got' = [l_got EXCEPT ![l] = Append(@, Sse("progress", event.n, "-"))]
               /\ UNCHANGED <<active_runs, l_pc>>
    /\ UNCHANGED <<worker, run_put, l_run>>
    /\ UNCHANGED exceptSse

\* lines 68-73: q.get(timeout=300) found the queue empty for 5 minutes
GetTimeout(l) ==
    /\ l_pc[l] = "streaming"
    /\ run_queue[l_run[l]] = <<>>
    /\ l_got' = [l_got EXCEPT ![l] = Append(@, Sse("error", 0, "Timeout"))]
    /\ CleanupRun(l_run[l])
    /\ l_pc' = [l_pc EXCEPT ![l] = "ended"]
    /\ UNCHANGED <<worker, run_queue, run_put, l_run>>
    /\ UNCHANGED exceptSse

SseNext ==
    \/ StartPipelineRun
    \/ \E r \in Runs : OnProgress(r)
    \/ \E r \in Runs : RunEnds(r)
    \/ \E l \in Listeners : Stream(l)
    \/ \E l \in Listeners : Generate(l)
    \/ \E l \in Listeners : GetTimeout(l)

(***************************************************************************)
(* Specifications: one per component, the other components parked          *)
(***************************************************************************)

\* A specification runs one component c; the variables of the other components
\* keep the values given here (no action of c reads or writes them).
Parked(c) ==
    /\ IF c = "retry" THEN TRUE
       ELSE /\ rpc = "parked"
            /\ attempt = 0
            /\ last_exc = NoExc
            /\ raised_exc = NoExc
            /\ trace = <<>>
    /\ IF c = "portal" THEN TRUE
       ELSE /\ caller = "parked"
            /\ access_token = NoneVal /\ api_key = NoneVal /\ closed = FALSE
            /\ ppc = "idle" /\ op = NoOp
            /\ code_verifier = "" /\ action_url = <<>> /\ action_url2 = <<>> /\ code = <<>>
            /\ requests = <<>> /\ hs = <<>> /\ ret = NoRet /\ ncalls = 0 /\ closes = 0
            /\ responses = NoResponses
            /\ fpc = "-" /\ zp_arg = "" /\ zp_list = <<>> /\ zp_body = NoBody /\ fetch_ret = NoRet
    /\ IF c = "verbrauch" THEN TRUE
       ELSE /\ vb_entries = <<>> /\ vb_days = <<>>
            /\ vb_flat = [ok |-> TRUE, exc |-> "parked", readings |-> <<>>]
            /\ vb_nested = [ok |-> TRUE, exc |-> "parked", readings |-> <<>>]
    /\ IF c = "tariffs" THEN TRUE
       ELSE /\ tpc = "parked" /\ t_args = [kwh |-> 0, preis |-> 0, gebuehr |-> 0]
            /\ t_failed = "-" /\ t_raw = <<>> /\ t_result = NoComparison
    /\ IF c = "agent" THEN TRUE
       ELSE /\ a_caller = "parked" /\ apc = "parked" /\ turn = 0 /\ state = EmptyState
            /\ messages = <<>> /\ pending = NoCall /\ a_calls = 0 /\ a_last = NoLast
            /\ a_chats = 0 /\ a_reply = <<>> /\ a_ret = Ret("-", <<>>, EmptyState)
    /\ IF c = "pipeline" THEN TRUE
       ELSE /\ pl_pc = "parked" /\ pl_args = [email |-> FALSE, password |-> FALSE]
            /\ pl_events = <<>> /\ pl_calls = <<>> /\ pl_invoice = NoInvoice /\ pl_smart = NoSmartMeter
            /\ pl_verbrauch = 0 /\ pl_tariff = NoneVal /\ pl_beg = NoneVal
            /\ pl_report = NoReport /\ pl_ret = NoPipelineRet
    /\ IF c = "sse" THEN TRUE
       ELSE /\ active_runs = {} /\ worker = <<>> /\ run_queue = <<>> /\ run_put = <<>>
            /\ l_pc = <<>> /\ l_run = <<>> /\ l_got = <<>>

\* SmartMeterClient.__init__ (lines 42-50); fetch_smart_meter_data constructs a
\* client of its own (line 253).
InitPortal ==
    /\ caller \in {"direct", "fetch"}
    /\ access_token = NoneVal /\ api_key = NoneVal /\ closed = FALSE
    /\ ppc = "idle" /\ op = NoOp
    /\ code_verifier = "" /\ action_url = <<>> /\ action_url2 = <<>> /\ code = <<>>
    /\ requests = <<>> /\ hs = <<>> /\ ret = NoRet /\ ncalls = 0 /\ closes = 0
    /\ responses = NoResponses
    /\ fpc = (IF caller = "fetch" THEN "start" ELSE "-")
    /\ zp_arg \in (IF caller = "fetch" THEN {"", "AT2", "AT9"} ELSE {""})
    /\ zp_list = <<>> /\ zp_body = NoBody /\ fetch_ret = NoRet
    /\ Parked("portal")
SpecPortal == InitPortal /\ [][PortalNext]_vars

InitRetry ==
    /\ rpc = "request"
    /\ attempt = 0
    /\ last_exc = NoExc
    /\ raised_exc = NoExc
    /\ trace = <<>>
    /\ Parked("retry")
SpecRetry == InitRetry /\ [][RetryNext]_vars

InitVerbrauch ==
    /\ \E n \in 0..MaxEntries : \E kinds \in [1..n -> EntryKinds] :
          /\ vb_entries = EntriesOf(kinds)
          /\ \E cut \in 0..n : \E k1, k2 \in {"values", "wpiList", "both"} :
                vb_days = <<DayOf(k1, SubSeq(EntriesOf(kinds), 1, cut)),
                            DayOf(k2, SubSeq(EntriesOf(kinds), cut + 1, n))>>
    /\ vb_flat = NoResult
    /\ vb_nested = NoResult
    /\ Parked("verbrauch")
SpecVerbrauch == InitVerbrauch /\ [][VerbrauchNext]_vars

\* compare_tariffs is entered: lines 193-215
InitTariffs ==
    /\ tpc = "session" /\ t_args \in TariffArgs
    /\ t_failed = "-" /\ t_raw = <<>> /\ t_result = NoComparison
    /\ Parked("tariffs")
SpecTariffs == InitTariffs /\ [][TariffsNext]_vars

\* run_agent is entered (lines 196-204), or a state dict is handed to
\* _execute_tool directly; the dict is empty or holds an earlier invoice
InitAgent ==
    /\ a_caller \in {"run_agent", "direct"}
    /\ apc = (IF a_caller = "run_agent" THEN "chat" ELSE "direct")
    /\ turn = 0
    /\ state \in {EmptyState, [EmptyState EXCEPT !["invoice"] = EntryOf("parse_invoice", 0, 1)]}
    /\ messages = (IF a_caller = "run_agent"
                   THEN <<Msg("system", "prompt", ""), Msg("user", "message", "")>> ELSE <<>>)
    /\ pending = NoCall /\ a_calls = 0 /\ a_last = NoLast
            /\ a_chats = 0 /\ a_reply = <<>> /\ a_ret = Ret("-", <<>>, EmptyState)
    /\ Parked("agent")
SpecAgent == InitAgent /\ [][AgentNext]_vars

\* run_pipeline is entered (lines 81-86)
InitPipeline ==
    /\ pl_pc = "invoice" /\ pl_args \in [email : BOOLEAN, password : BOOLEAN]
    /\ pl_events = <<>> /\ pl_calls = <<>> /\ pl_invoice = NoInvoice /\ pl_smart = NoSmartMeter
    /\ pl_verbrauch = 0 /\ pl_tariff = NoneVal /\ pl_beg = NoneVal
    /\ pl_report = NoReport /\ pl_ret = NoPipelineRet
    /\ Parked("pipeline")
SpecPipeline == InitPipeline /\ [][PipelineNext]_vars
\* run_pipeline runs on a thread of its own and every step returns or raises:
\* a run that can take a step takes it
SpecPipelineFair == SpecPipeline /\ WF_vars(PipelineNext)

\* the module is loaded: no run, no request (sse.py line 18)
InitSse ==
    /\ active_runs = {}
    /\ worker = [r \in Runs |-> "idle"]
    /\ run_queue = [r \in Runs |-> <<>>] /\ run_put = [r \in Runs |-> <<>>]
    /\ l_pc = [l \in Listeners |-> "idle"] /\ l_run = [l \in Listeners |-> "-"]
    /\ l_got = [l \in Listeners |-> <<>>]
    /\ Parked("sse")
SpecSse == InitSse /\ [][SseNext]_vars
\* A started thread runs (run_pipeline ends, C20), and a generator that is
\* being served either gets an event or its 5 minutes pass. Whether a run is
\* started, and whether a client ever requests its stream, is up to the clients.
SpecSseFair ==
    /\ SpecSse
    /\ \A r \in Runs : WF_vars(OnProgress(r) \/ RunEnds(r))
    /\ \A l \in Listeners : WF_vars(Generate(l) \/ GetTimeout(l))

(***************************************************************************)
(* Claims about SmartMeterClient and fetch_smart_meter_data                *)
(***************************************************************************)

IsData(r) == r.kind \in {"zaehlpunkte", "user/messwerte/bewegungsdaten"}
LastHs == hs[Len(hs)]
\* the requests of the public method call in progress (or last finished)
CallRequests == {i \in DOMAIN requests : requests[i].call = ncalls}
CallKinds == {requests[i].kind : i \in CallRequests}

\* C4: a data request (metering-point list or consumption data) is sent only
\* after a token request of a handshake on this client, and only while a bearer
\* token is held; none is sent while the token is unset.
C4_NoDataRequestWithoutToken ==
    \A i \in DOMAIN requests :
        IsData(requests[i]) =>
            /\ requests[i].bearer \notin {NoneVal, ""}
            /\ \E j \in 1..(i - 1) : requests[j].kind = "token"

\* C5: a handshake is started only by a call made while no bearer token is
\* held, and once a token is held it stays held and no handshake is started
\* again on the client, whatever the data calls return.
C5_HandshakeOnlyWithoutToken ==
    [][ /\ (Len(hs') > Len(hs) => access_token \in {NoneVal, ""})
        /\ (access_token \notin {NoneVal, ""} =>
                access_token' = access_token /\ Len(hs') = Len(hs)) ]_vars

\* C5 witness: the second call on the client went to its data request with the
\* token of the first call and no second handshake, and was answered with an
\* error status (an expired token, say).
C5_Witness ==
    /\ ncalls >= 2 /\ Len(hs) = 1 /\ LastHs.result = "Authenticated"
    /\ \E i, j \in DOMAIN requests :
          /\ i < j /\ IsData(requests[i]) /\ IsData(requests[j])
          /\ requests[i].call = 1 /\ requests[j].call = 2
          /\ requests[j].bearer = "tok1"
    /\ ret = Raised(Err.Status)

\* the redirect targets whose fragment carries a non-empty code parameter
FragmentHasCode(loc) == loc \in {Loc.Code, Loc.CodeAmongOthers}
PasswordAnswerWithoutCode ==
    \/ responses.password.kind = "nolocation"
    \/ (responses.password.kind = "location" /\ ~FragmentHasCode(responses.password.loc))

\* C6: when the answer to the password POST has no Location header, or a
\* Location whose fragment has no code parameter, the call fails with a
\* login-failed error that differs from the error of a login page without
\* action attribute; the password POST is the last request of the call (no
\* token request), and no bearer token is stored.
C6_NoCodeIsAuthenticationFailure ==
    PasswordAnswerWithoutCode =>
        /\ ret.status = "raised"
        /\ ret.exc \in {Err.NoLocation, Err.NoCode}
        /\ ret.exc # Err.NoAction
        /\ ppc = "idle"
        /\ LastHs.result = "failed"
        /\ requests[Len(requests)].kind = "password"
        /\ "token" \notin CallKinds
        /\ access_token \in {NoneVal, ""}

\* C6 witness: a redirect that carries the code in its query string only.
C6_Witness ==
    /\ responses.password.kind = "location"
    /\ responses.password.loc = Loc.QueryCode
    /\ ret = Raised(Err.NoCode)

\* an HTML text with no action attribute that has a value
NoActionAttribute(html) == \A k \in DOMAIN html : html[k] = <<>>

\* C7: when the HTML of the authorize GET has no action attribute, the call
\* fails with the protocol-shape error, the authorize GET is the only request
\* of the call (no username POST, password POST or token request), and no
\* bearer token is stored.
C7_NoActionIsProtocolShapeError ==
    (responses.authorize.kind = "html" /\ NoActionAttribute(responses.authorize.html)) =>
        /\ ret = Raised(Err.NoAction)
        /\ ppc = "idle"
        /\ LastHs = [result |-> "failed", step |-> "authorize"]
        /\ CallKinds = {"authorize"}
        /\ access_token \in {NoneVal, ""}

\* C7 witness: the login page came back without a form action.
C7_Witness ==
    /\ responses.authorize.kind = "html" /\ responses.authorize.html = <<>>
    /\ ret = Raised(Err.NoAction)

\* C8: a failed key retrieval (the configuration GET fails or returns an error
\* status) is not fatal: the handshake ends Authenticated, the call goes on to
\* its data request, and the data requests carry no gateway API-key header.
C8_KeyRetrievalFailureNotFatal ==
    responses.config.kind \in {"transport", "status"} =>
        /\ LastHs.result = "Authenticated"
        /\ ret.status # "raised" \/ responses.data # "-"
        /\ ppc = "data" \/ \E i \in CallRequests : IsData(requests[i])
        /\ \A i \in CallRequests : IsData(requests[i]) => requests[i].apikey = "-"

\* C9: a handshake ends Authenticated or in the error of the step that failed,
\* and after a handshake ended in an error no later handshake on the client
\* ends Authenticated and no data request is sent on it.
HandshakeSteps == {"authorize", "username", "password", "code", "token", "config"}
C9_FailedClientNotReusable ==
    \A i \in DOMAIN hs :
        /\ hs[i].result \in {"running", "Authenticated", "failed"}
        /\ hs[i].result = "failed" =>
              /\ hs[i].step \in HandshakeSteps
              /\ \A j \in DOMAIN hs : j > i => hs[j].result # "Authenticated"
              /\ \A k \in DOMAIN requests : IsData(requests[k]) => requests[k].hsn < i

\* no contract, or only entries without a metering-point number
NoNumberedPoint(body) ==
    \/ ~body.isList
    \/ \A c \in DOMAIN body.items :
         \A z \in DOMAIN body.items[c].zaehlpunkte :
            body.items[c].zaehlpunkte[z] \in {"", NoneVal}

\* C10: when the enumeration of fetch_smart_meter_data comes back with no
\* numbered metering point, the retrieval fails with the no-metering-point
\* error and no consumption request is sent.
C10_NoMeteringPointError ==
    (caller = "fetch" /\ zp_body.seen /\ NoNumberedPoint(zp_body.body)) =>
        /\ fpc \in {"finally", "done"}
        /\ fetch_ret = Raised(Err.NoZp)
        /\ \A i \in DOMAIN requests : requests[i].kind # "user/messwerte/bewegungsdaten"
        /\ op = ZpOp

\* C10 witness: contracts whose entries carry no metering-point number.
C10_Witness ==
    /\ caller = "fetch" /\ fpc = "done" /\ zp_body.seen
    /\ zp_body.body.isList
    /\ \E c \in DOMAIN zp_body.body.items : zp_body.body.items[c].zaehlpunkte # <<>>
    /\ NoNumberedPoint(zp_body.body)
    /\ fetch_ret = Raised(Err.NoZp)

(***************************************************************************)
(* Claims about _request_with_retry                                        *)
(***************************************************************************)

RequestIdx == {i \in DOMAIN trace : trace[i].ev = "request"}
SleepIdx == {i \in DOMAIN trace : trace[i].ev = "sleep"}
NumRequests == Cardinality(RequestIdx)
IsSleep(e) == e.ev = "sleep"
Sleeps == SelectSeq(trace, IsSleep)
RECURSIVE SumWaits(_)
SumWaits(s) == IF s = <<>> THEN 0 ELSE Head(s).n + SumWaits(Tail(s))
TotalWaited == SumWaits(Sleeps)
RetryEnded == rpc \in {"returned", "raised"}
Is4xx(o) == o.kind = "response" /\ o.status >= 400 /\ o.status <= 499
IsTransient(o) == \/ (o.kind = "response" /\ o.status >= 500)
                  \/ (o.kind = "exception" /\ o.error \in {"TimeoutException", "ConnectError"})

\* C1: one call issues at most 3 requests; every sleep stands between a failed
\* attempt and the attempt that follows it (never after the last attempt); the
\* k-th sleep lasts 2^k seconds; the total waited is 0 s, 2 s or 6 s for zero,
\* one or two retries.
C1_BoundedBackoff ==
    /\ NumRequests <= 3
    /\ \A i \in SleepIdx :
          /\ i > 1
          /\ trace[i-1].ev = "request"
          /\ trace[i-1].exc # NoExc
          /\ IF i < Len(trace) THEN trace[i+1].ev = "request" ELSE rpc = "request"
    /\ \A k \in DOMAIN Sleeps : Sleeps[k].n = 2 ^ k
    /\ RetryEnded =>
          /\ NumRequests >= 1
          /\ Len(Sleeps) = NumRequests - 1
          /\ TotalWaited = (CASE NumRequests = 1 -> 0
                               [] NumRequests = 2 -> 2
                               [] NumRequests = 3 -> 6)

\* C1 witness: a call that ended after two retries, having waited 2 s + 4 s.
C1_Witness ==
    /\ RetryEnded /\ NumRequests = 3 /\ TotalWaited = 6
    /\ \A i \in RequestIdx : i < Len(trace) => IsTransient(trace[i].out)

\* C2: a 4xx response is never retried: it is the call's last request, no sleep
\* follows it, and the call fails at once with that error (so a 4xx answer to
\* the first attempt means exactly one request and no sleep).
C2_ClientErrorNeverRetried ==
    \A i \in RequestIdx :
        Is4xx(trace[i].out) =>
            /\ i = Len(trace)
            /\ rpc = "raised"
            /\ raised_exc = [type |-> "HTTPStatusError", status |-> trace[i].out.status]
            /\ (i = 1 => NumRequests = 1 /\ SleepIdx = {})

\* C3: an attempt is followed by another attempt exactly when it ended with a
\* status >= 500 or a connect/timeout failure and fewer than 3 attempts were
\* made; a successful attempt is returned with no further request; when all 3
\* attempts fail the call fails with the error of the last attempt.
C3_RetryExactlyOnTransient ==
    /\ \A i \in RequestIdx :
          LET followed == (i < Len(trace)) \/ rpc = "sleep" IN
          /\ followed <=> (IsTransient(trace[i].out) /\ trace[i].n < 3)
          /\ trace[i].exc = NoExc => (i = Len(trace) /\ rpc = "returned")
    /\ (rpc = "raised" /\ NumRequests = 3) => raised_exc = trace[Len(trace)].exc

(***************************************************************************)
(* Claims about the parser of get_verbrauch                                *)
(***************************************************************************)

Called(r) == r # NoResult

\* C11: for the same sequence of entries, the parser produces the same readings
\* (timestamps and kWh values, in order), or fails the same way, on the
\* single-object response and on the list of daily objects.
C11_SameReadingsInBothShapes ==
    (Called(vb_flat) /\ Called(vb_nested)) => vb_flat = vb_nested

\* C11 witness: both shapes parsed, two readings, one from a daily values list
\* and one from a daily wpiList.
C11_Witness ==
    /\ Called(vb_flat) /\ Called(vb_nested)
    /\ vb_nested.ok /\ Len(vb_nested.readings) = 2
    /\ Len(vb_days[1].values) = 1 /\ ~vb_days[2].hasValues /\ Len(vb_days[2].wpiList) >= 1

\* an entry with an ISO timestamp and a numeric value
WellFormed(e) ==
    /\ e.zeitpunktVon.t \in {"isoZ", "iso"}
    /\ e.wert.t \in {"number", "numstr"}
WellFormedIdx(es) == {i \in DOMAIN es : WellFormed(es[i])}
\* the k-th smallest element of a set of numbers
RECURSIVE Nth(_, _)
Nth(S, k) ==
    LET m == CHOOSE x \in S : \A y \in S : x <= y IN
    IF k = 1 THEN m ELSE Nth(S \ {m}, k - 1)
ExpectedReadings(es) ==
    [k \in 1..Cardinality(WellFormedIdx(es)) |->
        LET e == es[Nth(WellFormedIdx(es), k)] IN
        [timestamp |-> [at |-> e.zeitpunktVon.v,
                        zone |-> IF e.zeitpunktVon.t = "isoZ" THEN "+00:00" ELSE "naive"],
         kwh |-> e.wert.v]]

\* C12: the parser never fails because of a malformed entry: it returns exactly
\* the well-formed entries, in their original order.
C12_MalformedEntriesDropped ==
    Called(vb_flat) =>
        /\ vb_flat.ok
        /\ vb_flat.readings = ExpectedReadings(vb_entries)

(***************************************************************************)
(* Claims about compare_tariffs                                            *)
(***************************************************************************)

TariffsEnded == tpc \in {"returned", "raised"}

GrossCost(raw, kwh) ==
    Round2(12 * ((IF kwh > 0 /\ raw.energyRateTotal > 0 THEN raw.energyRateTotal ELSE 0)
                 + raw.baseRate))
Acceptable(raw, kwh) ==
    /\ raw.rateZoningType # "COMPLEX"
    /\ raw.costs = "dict" /\ (raw.energyType = "number" \/ kwh <= 0)
    /\ GrossCost(raw, kwh) > 0
AcceptableIdx == {i \in DOMAIN t_raw : Acceptable(t_raw[i], t_args.kwh)}
ReturnedIdx == {t_result.alternativen[k].lieferant : k \in DOMAIN t_result.alternativen}
LookupAnswered == t_failed = "-" /\ tpc \in {"returned", "raised"}

\* C14: the alternatives returned are sorted ascending by yearly cost, number
\* at most top_n, and are the top_n cheapest accepted entries: no accepted
\* entry left out is cheaper than a returned one.
C14_CheapestTopNSorted ==
    (LookupAnswered /\ t_result.status = "returned") =>
        LET alts == t_result.alternativen IN
        /\ Len(alts) <= TopN
        /\ \A i, j \in DOMAIN alts : i < j => alts[i].jahreskosten <= alts[j].jahreskosten
        /\ ReturnedIdx \subseteq AcceptableIdx
        /\ Cardinality(ReturnedIdx) = Len(alts)
        /\ \A k \in DOMAIN alts :
              alts[k].jahreskosten = GrossCost(t_raw[alts[k].lieferant], t_args.kwh)
        /\ Len(alts) = TopN \/ ReturnedIdx = AcceptableIdx
        /\ \A i \in AcceptableIdx \ ReturnedIdx : \A k \in DOMAIN alts :
              GrossCost(t_raw[i], t_args.kwh) >= alts[k].jahreskosten

\* C14 witness: six accepted entries in unsorted order, five returned, the one
\* left out costs at least as much as the last returned.
C14_Witness ==
    /\ LookupAnswered /\ t_result.status = "returned"
    /\ Cardinality(AcceptableIdx) = 6
    /\ Len(t_result.alternativen) = TopN
    /\ t_raw[1].energyRateTotal > t_raw[2].energyRateTotal
    /\ t_result.alternativen[1].jahreskosten < t_result.alternativen[TopN].jahreskosten

\* C15: no alternative comes from a COMPLEX entry or has a yearly cost <= 0;
\* such entries, and entries that cannot be parsed, are dropped without
\* failing the comparison and without affecting the other entries.
C15_BadEntriesDropped ==
    LookupAnswered =>
        /\ t_result.status = "returned"
        /\ \A k \in DOMAIN t_result.alternativen :
              /\ t_result.alternativen[k].jahreskosten > 0
              /\ t_raw[t_result.alternativen[k].lieferant].rateZoningType # "COMPLEX"
        /\ Cardinality(AcceptableIdx) <= TopN => ReturnedIdx = AcceptableIdx

(***************************************************************************)
(* Claims about _execute_tool and run_agent                                *)
(***************************************************************************)

ToolCalled == a_calls > 0
LastFailedByException == ToolCalled /\ a_last.text.exc # "-"

\* C16: _execute_tool never raises: an exception of the collaborator, or of a
\* missing required argument, comes back as a failure text naming the tool,
\* and in run_agent that text is fed back as the tool result and the loop goes
\* on to its next turn.
C16_ToolFailureIsText ==
    ToolCalled =>
        /\ ~a_last.raised
        /\ LastFailedByException =>
              a_last.text.kind = "error" /\ a_last.text.tool = a_last.name
        /\ a_caller = "run_agent" =>
              /\ turn = a_calls
              /\ Len(messages) >= 2 + 2 * a_calls
              /\ messages[2 + 2 * a_calls] = Msg("user", a_last.text.kind, a_last.name)
              /\ (apc = "returned" /\ a_ret.kind = "too many steps") => turn = MaxTurns
              /\ (turn < MaxTurns /\ Len(messages) = 2 + 2 * a_calls) =>
                    apc \in {"chat", "returned", "raised"} /\ a_ret.kind # "too many steps"

\* C16 witness: in run_agent the first tool call failed for a missing required
\* argument and the loop is at its next model call.
C16_Witness ==
    /\ a_caller = "run_agent" /\ a_calls = 1 /\ turn = 1 /\ apc = "chat"
    /\ a_last.text = ToolText("error", "fetch_smart_meter_data", "KeyError")
    /\ messages[4] = Msg("user", "error", "fetch_smart_meter_data")

LastWasReportWithoutInvoice ==
    /\ ToolCalled /\ a_last.name = "generate_savings_report"
    /\ ~a_last.before["invoice"].present

\* C17: report generation with no invoice in the state does not raise and
\* produces no report: it returns the text asking for parse_invoice first and
\* stores nothing.
C17_ReportNeedsInvoice ==
    LastWasReportWithoutInvoice =>
        /\ ~a_last.raised
        /\ a_last.text = ToolText("need invoice", "generate_savings_report", "-")
        /\ ~state["report"].present
        /\ state = a_last.before

\* C17 witness: the report tool was called on a state without invoice that
\* already held a tariff comparison.
C17_Witness ==
    /\ LastWasReportWithoutInvoice
    /\ a_last.before["tariff_comparison"].present
    /\ a_last.text.kind = "need invoice"

LastSucceeded == ToolCalled /\ a_last.text.kind = "ok"

\* C18 as stated: after a tool succeeds its result is stored in the state under
\* the tool's own name, the name by which it is invoked.
C18_StoredUnderToolName ==
    LastSucceeded =>
        /\ a_last.name \in DOMAIN state
        /\ state[a_last.name].present

\* the key each tool's result goes by
ResultKey ==
    [n \in VALID_TOOLS |->
        CASE n = "parse_invoice"           -> "invoice"
          [] n = "fetch_smart_meter_data"  -> "smart_meter"
          [] n = "compare_tariffs"         -> "tariff_comparison"
          [] n = "calculate_beg_advantage" -> "beg_calculation"
          [] n = "generate_savings_report" -> "report"]

\* C18 amended: after a tool succeeds its result is stored under that tool's
\* result key, and every entry of the state is the last result produced by the
\* tool of its key.
C18_StoredUnderResultKey ==
    /\ LastSucceeded =>
          /\ state[ResultKey[a_last.name]].present
          /\ state[ResultKey[a_last.name]].by = a_last.name
          /\ state[ResultKey[a_last.name]].at = a_calls
    /\ \A k \in DOMAIN state :
          state[k].present =>
             /\ state[k].by \in VALID_TOOLS /\ ResultKey[state[k].by] = k
             /\ state[k].at <= a_calls

\* C18 witness: parse_invoice succeeded twice; the invoice entry is the second
\* result.
C18_Witness ==
    /\ LastSucceeded /\ a_calls = 2 /\ a_last.name = "parse_invoice"
    /\ a_last.before["invoice"].present /\ a_last.before["invoice"].at = 1
    /\ state["invoice"].at = 2

(***************************************************************************)
(* Claims about run_pipeline                                               *)
(***************************************************************************)

InvoiceFailed == \E i \in DOMAIN pl_events : pl_events[i] = Event("invoice", "error")
InvoiceExtracted == \E i \in DOMAIN pl_events : pl_events[i] = Event("invoice", "done")
CalledFns == {pl_calls[i].fn : i \in DOMAIN pl_calls}

\* C19: if invoice extraction fails, run_pipeline emits (invoice, started) then
\* (invoice, error), re-raises the error and does nothing else: no later step
\* is started, no report is produced, nothing is persisted.
C19_InvoiceFailureIsFatal ==
    InvoiceFailed =>
        /\ pl_pc = "raised"
        /\ pl_ret.status = "raised" /\ pl_ret.exc = "parse_invoice failed"
        /\ pl_events = <<Event("invoice", "started"), Event("invoice", "error")>>
        /\ CalledFns = {"parse_invoice"}
        /\ ~pl_report.made /\ pl_ret.analysis_id = "None"

\* C19 witness: a run with credentials whose invoice extraction failed.
C19_Witness ==
    InvoiceFailed /\ pl_pc = "raised" /\ HasCredentials(pl_args)

StepFailed(step) == \E i \in DOMAIN pl_events : pl_events[i] = Event(step, "error")
ReportReturned ==
    /\ pl_pc = "returned" /\ pl_ret.status = "returned" /\ pl_ret.report.made
    /\ "generate_report" \in CalledFns

\* C20: if invoice extraction succeeds, run_pipeline reaches report assembly
\* and returns a report, whatever combination of the smart-meter, tariff and
\* community steps fails; a failed step leaves its result absent and never
\* ends the run.
C20_ReportAlwaysReached ==
    /\ [](InvoiceExtracted => <>ReportReturned)
    /\ [](InvoiceExtracted => pl_pc # "raised")
    /\ [](ReportReturned =>
            /\ StepFailed("smartmeter") => ~pl_ret.report.smart_meter
            /\ StepFailed("tariff") => pl_ret.report.tariff_comparison = "None"
            /\ StepFailed("beg") => pl_ret.report.beg_comparison = "None")

\* C20 witness: smart-meter, tariff and community step all failed and the
\* report was returned.
C20_Witness ==
    /\ ReportReturned
    /\ StepFailed("smartmeter") /\ StepFailed("tariff") /\ StepFailed("beg")

StepOrder == <<"invoice", "smartmeter", "tariff", "beg", "report">>
StepNo(s) == CHOOSE i \in DOMAIN StepOrder : StepOrder[i] = s
PipelineEnded == pl_pc \in {"returned", "raised"}

\* C21: the events sent to the progress sink follow the step order invoice,
\* smartmeter, tariff, beg, report: the first event belongs to the invoice
\* step, a started event is followed by done or error of the same step, every
\* other event is followed by started or skipped of the next step, every
\* status is one of started, done, error, skipped, and a run that has ended
\* has left no step started without its done or error.
C21_EventsInStepOrder ==
    /\ \A i \in DOMAIN pl_events :
          /\ \E k \in DOMAIN StepOrder : pl_events[i][1] = StepOrder[k]
          /\ pl_events[i][2] \in {"started", "done", "error", "skipped"}
    /\ pl_events # <<>> => pl_events[1][1] = "invoice" /\ pl_events[1][2] \in {"started", "skipped"}
    /\ \A i \in 1..(Len(pl_events) - 1) :
          LET e == pl_events[i]
              f == pl_events[i + 1] IN
          IF e[2] = "started"
          THEN f[1] = e[1] /\ f[2] \in {"done", "error"}
          ELSE /\ StepNo(e[1]) < Len(StepOrder)
               /\ f[1] = StepOrder[StepNo(e[1]) + 1]
               /\ f[2] \in {"started", "skipped"}
    /\ PipelineEnded => pl_events # <<>> /\ pl_events[Len(pl_events)][2] # "started"

\* C21 witness: a returned run whose smart-meter step was skipped, whose
\* tariff step failed and whose other steps were done.
C21_Witness ==
    /\ pl_pc = "returned"
    /\ pl_events = <<Event("invoice", "started"), Event("invoice", "done"),
                     Event("smartmeter", "skipped"),
                     Event("tariff", "started"), Event("tariff", "error"),
                     Event("beg", "started"), Event("beg", "done"),
                     Event("report", "started"), Event("report", "done")>>

StepEvents(step) == SelectSeq(pl_events, LAMBDA e : e[1] = step)
PortalContacted == "fetch_smart_meter_data" \in CalledFns
BothSupplied == pl_args.email /\ pl_args.password

\* C22: the smart-meter portal is contacted only in a run given both a
\* username and a password; once the smart-meter step is over, the portal was
\* contacted if both were given, and otherwise the step has sent exactly one
\* event, skipped, and no portal call was made.
C22_PortalOnlyWithCredentials ==
    /\ PortalContacted => BothSupplied
    /\ StepEvents("smartmeter") # <<>> =>
          IF BothSupplied
          THEN PortalContacted /\ StepEvents("smartmeter")[1] = Event("smartmeter", "started")
          ELSE ~PortalContacted /\ StepEvents("smartmeter") = <<Event("smartmeter", "skipped")>>

\* C22 witness: a run given a username and no password went past the
\* smart-meter step and returned.
C22_Witness ==
    /\ pl_args.email /\ ~pl_args.password
    /\ pl_pc = "returned"
    /\ StepEvents("smartmeter") = <<Event("smartmeter", "skipped")>>

ComparisonCalls ==
    SelectSeq(pl_calls, LAMBDA c : c.fn \in {"compare_tariffs", "compare_beg_options"})
SeriesFetched ==
    \E i \in DOMAIN pl_calls :
        pl_calls[i].fn = "fetch_smart_meter_data" /\ pl_calls[i].out = "returned"

\* C23: the consumption handed to the tariff comparison and to the community
\* comparison is the projection of the fetched series when a series was
\* fetched and its projection is > 0, and the value the invoice declares
\* otherwise; both comparisons are handed the same value.
C23_EffectiveConsumption ==
    \A i \in DOMAIN ComparisonCalls :
        ComparisonCalls[i].kwh =
            IF SeriesFetched /\ pl_smart.jahresverbrauch_kwh > 0
            THEN pl_smart.jahresverbrauch_kwh
            ELSE pl_invoice.jahresverbrauch_kwh

\* C23 witness: a series was fetched whose projection is not positive, and
\* both comparisons were handed the invoice's value.
C23_Witness ==
    /\ SeriesFetched /\ pl_smart.jahresverbrauch_kwh <= 0
    /\ Len(ComparisonCalls) = 2
    /\ \A i \in DOMAIN ComparisonCalls : ComparisonCalls[i].kwh = 3000

\* C23 witness, the other case: both comparisons were handed the projection.
C23_WitnessProjection ==
    /\ SeriesFetched /\ Len(ComparisonCalls) = 2
    /\ \A i \in DOMAIN ComparisonCalls : ComparisonCalls[i].kwh = 2800

PersistenceFailed ==
    \E i \in DOMAIN pl_calls :
        pl_calls[i].fn \in {"GridbertStorage", "save_analysis"} /\ pl_calls[i].out = "raised"

\* C24: when opening the store or saving the analysis raises, run_pipeline
\* still returns the assembled report, with an absent analysis id, and its
\* last event is (report, done).
C24_PersistenceNeverFailsRun ==
    PersistenceFailed =>
        /\ pl_pc = "returned"
        /\ pl_ret.status = "returned"
        /\ pl_ret.report = pl_report /\ pl_report.made
        /\ pl_ret.analysis_id = "None"
        /\ pl_events[Len(pl_events)] = <<"report", "done">>

\* C24 witness: the store opened, save_analysis raised, and the run returned
\* its report without an id.
C24_Witness ==
    /\ \E i \in DOMAIN pl_calls :
          pl_calls[i].fn = "save_analysis" /\ pl_calls[i].out = "raised"
    /\ pl_pc = "returned" /\ pl_ret.report.made /\ pl_ret.analysis_id = "None"

\* C25: run_agent calls the language model at most max_turns times and
\* dispatches at most max_turns tools; when every reply was a recognized tool
\* call, so that max_turns tools were dispatched, it has returned the fixed
\* too-many-steps message together with the state accumulated so far, and has
\* not raised.
C25_TurnBound ==
    a_caller = "run_agent" =>
        /\ a_chats <= MaxTurns
        /\ a_calls <= MaxTurns
        /\ a_calls = MaxTurns =>
              /\ apc = "returned"
              /\ a_ret.kind = "too many steps"
              /\ a_ret.state = state

\* C25 witness: max_turns model calls, each answered by a tool call, and the
\* run returned the fixed message with a state that holds a tool's result.
C25_Witness ==
    /\ a_caller = "run_agent" /\ a_chats = MaxTurns /\ a_calls = MaxTurns
    /\ apc = "returned" /\ a_ret.kind = "too many steps"
    /\ a_ret.state["tariff_comparison"].present

\* the reply holds a tool-invocation block whose text is not valid JSON but
\* has a name field with a recognized tool name
MalformedButNamed(content) ==
    /\ ToolCallMatch(content) # <<>>
    /\ ~ToolCallMatch(content)[1].json
    /\ ToolCallMatch(content)[1].name \in VALID_TOOLS
ModelReplied == apc = "chat" /\ a_chats' = a_chats + 1 /\ apc' # "raised"

TagPieces(s) ==
    LET cs == [i \in DOMAIN s |-> s[i].c]
        IsTag(i, n) == /\ i + n - 1 <= Len(s)
                       /\ SubSeq(cs, i, i + n - 1) \in {<<"<", "tool_call", ">">>,
                                                        <<"<", "/", "tool_call", ">">>}
    IN  {k \in DOMAIN s : \E i \in 1..k, n \in {3, 4} : IsTag(i, n) /\ k < i + n}
\* the reply with the pieces of its tool tags taken out
WithoutTags(s) ==
    LET kept == DOMAIN s \ TagPieces(s)
    IN  [j \in 1..Cardinality(kept) |->
            s[CHOOSE k \in kept : Cardinality({m \in kept : m < k}) = j - 1]]
\* the reply has no well-formed tool-invocation block, or its block names a
\* tool that is not in the registry
NotAToolCall(content) ==
    \/ ToolCallMatch(content) = <<>>
    \/ ToolCallMatch(content)[1].name \notin VALID_TOOLS

C27_WitnessStrayTags ==
    /\ apc = "returned" /\ a_ret.kind = "answer" /\ ToolCallMatch(a_reply) = <<>>
    /\ TagPieces(a_reply) # {} /\ a_ret.text = <<Ch("text")>>

\* C28: run_agent never raises to its caller: whatever the language model and
\* the tools do, a model call that fails or times out included, the run ends
\* with an answer or with the fixed too-many-steps message.
C28_NeverRaises ==
    a_caller = "run_agent" =>
        /\ apc # "raised"
        /\ apc = "returned" => a_ret.kind \in {"answer", "too many steps"}

(***************************************************************************)
(* Claims about the web runs                                               *)
(***************************************************************************)

\* C29: every started run whose queue no listener drains in time, the run no
\* listener ever attaches to included, is eventually removed from the run
\* registry.
C29_AbandonedRunReclaimed ==
    \A r \in Runs : (r \in active_runs) ~> (r \notin active_runs)

IsComplete(ev) == ev.step = "complete" /\ ev.status \in {"done", "error"}
WorkerEnded(r) == worker[r] \in {"returned", "raised"}
\* what run r's worker has put so far is progress events only, or progress
\* events and then one complete event, which the ended worker has put
OneCompleteLast(r) ==
    LET h == run_put[r] IN
    /\ \A i \in DOMAIN h : IF i < Len(h) \/ ~WorkerEnded(r) THEN h[i].step = "progress"
                           ELSE IsComplete(h[i])
    /\ WorkerEnded(r) =>
          /\ h # <<>>
          /\ h[Len(h)].status = (IF worker[r] = "returned" THEN "done" ELSE "error")

\* C30: every started run goes on to its end whatever its listeners do: the
\* worker puts exactly one complete event (done when run_pipeline returned,
\* error when it raised) on the run's queue, after all the run's progress
\* events and as its last put.
C30_RunCompletesRegardless ==
    /\ [](\A r \in Runs : OneCompleteLast(r))
    /\ \A r \in Runs : (worker[r] = "running") ~> WorkerEnded(r)

\* C30 witness: the listener of a run timed out and removed the run while its
\* worker was running; the worker then put a progress event and the complete
\* event on the queue nobody reads.
C30_Witness ==
    \E r \in Runs, l \in Listeners :
        /\ l_run[l] = r /\ l_pc[l] = "ended" /\ l_got[l] = <<Sse("error", 0, "Timeout")>>
        /\ r \notin active_runs /\ WorkerEnded(r)
        /\ Len(run_put[r]) = 2 /\ run_queue[r] = run_put[r]

\* C30 witness, no listener at all
C30_WitnessNoListener ==
    /\ \A l \in Listeners : l_pc[l] = "idle"
    /\ \E r \in Runs : WorkerEnded(r) /\ r \in active_runs /\ IsComplete(run_put[r][Len(run_put[r])])

HandshakeOrder == <<"authorize", "username", "password", "token", "config">>
\* the requests of handshake n, in the order they were sent
HandshakeRequests(n) ==
    SelectSeq(requests, LAMBDA r : r.hsn = n /\ r.kind \in {HandshakeOrder[i] : i \in 1..5})

\* C32: the requests of one handshake are a prefix of authorize GET, username
\* POST, password POST, token POST, configuration GET; the verifier of the
\* token POST is the one whose challenge the authorize GET of that handshake
\* carried; and the bearer token is written only by the step that received a
\* successful answer to the token POST.
C32_HandshakeOrder ==
    /\ [](\A n \in 1..Len(hs) :
            LET rs == HandshakeRequests(n) IN
            /\ Len(rs) <= 5
            /\ \A i \in DOMAIN rs : rs[i].kind = HandshakeOrder[i]
            /\ Len(rs) >= 4 => /\ rs[4].pkce[1] = "verifier" /\ rs[1].pkce[1] = "S256"
                               /\ rs[4].pkce[2] = rs[1].pkce[2])
    /\ [][access_token' # access_token =>
            /\ ppc = "token" /\ ppc' = "config"
            /\ Len(requests') = Len(requests) + 1
            /\ requests'[Len(requests')].kind = "token"
            /\ responses'.token.kind = "json"
            /\ access_token' = responses'.token.token]_vars

\* C32 witness: a second handshake of one client ran to its end with all five
\* requests, after a first one that had stored an unusable token.
C32_Witness ==
    /\ Len(hs) = 2 /\ hs[2].result = "Authenticated"
    /\ Len(HandshakeRequests(2)) = 5 /\ Len(HandshakeRequests(1)) = 5
    /\ access_token = "tok1"
    /\ HandshakeRequests(1)[1].pkce # HandshakeRequests(2)[1].pkce

\* the token requests of the handshake in progress (or last run)
TokenRequests == SelectSeq(requests, LAMBDA r : r.hsn = Len(hs) /\ r.kind = "token")
PasswordRedirectedTo(loc) ==
    responses.password.kind = "location" /\ responses.password.loc = loc

\* C33: the authorization code is the value of code in the fragment of the
\* redirect URL, up to the next &. A redirect with code in its query string
\* only yields no code: the handshake fails and no token request is sent. A
\* fragment with code among other parameters yields exactly the code value.
C33_CodeFromFragmentOnly ==
    /\ (PasswordRedirectedTo(Loc.QueryCode) \/ PasswordRedirectedTo(Loc.QueryCodeFragmentState)) =>
          /\ ret = Raised(Err.NoCode) /\ LastHs = [result |-> "failed", step |-> "code"]
          /\ TokenRequests = <<>>
    /\ (PasswordRedirectedTo(Loc.CodeAmongOthers) \/ PasswordRedirectedTo(Loc.Code)) =>
          /\ ppc = "token" => code = <<"c1">>
          /\ ppc # "token" => Len(TokenRequests) = 1
    /\ \A i \in DOMAIN requests :
          requests[i].kind = "token" => requests[i].code = <<"c1">>

\* C33 witness: the redirect carried state, code and iss in its fragment, and
\* the token request was sent with the code value alone.
C33_Witness ==
    /\ PasswordRedirectedTo(Loc.CodeAmongOthers)
    /\ Len(TokenRequests) = 1 /\ TokenRequests[1].code = <<"c1">>
    /\ access_token = "tok1"

\* C33 witness, the query-string case: code in the query, a fragment without it
C33_WitnessQueryOnly ==
    /\ PasswordRedirectedTo(Loc.QueryCodeFragmentState)
    /\ ret = Raised(Err.NoCode) /\ TokenRequests = <<>>

\* C39: fetch_smart_meter_data closes its client exactly once on every exit
\* path, as its last step, and no request is sent through the closed client.
C39_ClientClosedOnce ==
    /\ [](caller = "fetch" =>
            /\ closes <= 1
            /\ closed <=> closes = 1
            /\ fpc = "done" <=> closed
            /\ fpc = "done" => fetch_ret.status \in {"returned", "raised"})
    /\ [][(caller = "fetch" /\ closed) => requests' = requests]_vars

\* C39 witness: the consumption request failed after a handshake and a
\* metering-point list that went well, and the client was closed once.
C39_Witness ==
    /\ caller = "fetch" /\ fpc = "done" /\ closes = 1 /\ closed
    /\ fetch_ret.status = "raised" /\ zp_list # <<>>
    /\ requests[Len(requests)].kind = "user/messwerte/bewegungsdaten"

(***************************************************************************)
(* Further claims about _execute_tool and run_agent                        *)
(***************************************************************************)

PriceKeys == <<"aktueller_energiepreis", "energiepreis", "energiepreis_ct_kwh">>
Supplied(args, key) == args[key].t # "absent"
\* the first of the three price keys that the arguments hold, 0 when none
FirstPriceKey(args) ==
    IF \A i \in 1..3 : ~Supplied(args, PriceKeys[i]) THEN 0
    ELSE CHOOSE i \in 1..3 :
            Supplied(args, PriceKeys[i]) /\ \A j \in 1..(i - 1) : ~Supplied(args, PriceKeys[j])
LastWas(name) == a_calls > 0 /\ a_last.name = name

\* C34: a compare_tariffs call that went through computed its comparison from
\* the value of the first key among aktueller_energiepreis, energiepreis,
\* energiepreis_ct_kwh that its arguments hold; with none of them, from the
\* price of the invoice in the state; and with no invoice, from 0. When the
\* value under that first key is no number the call fails instead of going on
\* to a later key or to the invoice.
C34_PricePrecedence ==
    LastWas("compare_tariffs") =>
        LET k == FirstPriceKey(a_last.args)
            inv == a_last.before["invoice"] IN
        /\ a_last.text.kind = "ok" =>
              state["tariff_comparison"].data =
                 IF k # 0 THEN a_last.args[PriceKeys[k]].v
                 ELSE IF inv.present THEN InvoiceOf(inv.data)["energiepreis_ct_kwh"].v
                 ELSE 0
        /\ (k # 0 /\ a_last.args[PriceKeys[k]].t # "number") => a_last.text.kind = "error"

\* C34 witness: an invoice is in the state (price 21), the arguments hold
\* energiepreis = 30 and energiepreis_ct_kwh = 40, and the comparison was
\* computed from 30.
C34_Witness ==
    /\ LastWas("compare_tariffs") /\ a_last.text.kind = "ok"
    /\ a_last.before["invoice"].present
    /\ FirstPriceKey(a_last.args) = 2 /\ Supplied(a_last.args, "energiepreis_ct_kwh")
    /\ state["tariff_comparison"].data = 30

\* C34 witness, no key supplied: the price of the invoice in the state
C34_WitnessFromState ==
    /\ LastWas("compare_tariffs") /\ a_last.text.kind = "ok"
    /\ FirstPriceKey(a_last.args) = 0 /\ state["tariff_comparison"].data = 21

\* C35: when the arguments of a call hold both energiepreis and
\* energiepreis_ct_kwh, with different values, and none of the keys that only
\* one tool knows, compare_tariffs and calculate_beg_advantage resolve the
\* energy price to the same one of the two.
C35_SameAliasPrecedence ==
    (/\ a_calls > 0 /\ a_last.name \in {"compare_tariffs", "calculate_beg_advantage"}
     /\ a_last.text.kind = "ok"
     /\ Supplied(a_last.args, "energiepreis") /\ Supplied(a_last.args, "energiepreis_ct_kwh")
     /\ a_last.args["energiepreis"] # a_last.args["energiepreis_ct_kwh"]
     /\ ~Supplied(a_last.args, "aktueller_energiepreis")
     /\ ~Supplied(a_last.args, "aktueller_energiepreis_ct_kwh"))
    => /\ state[StateKeyOf(a_last.name)].data \in
             {ComparePreis(a_last.args, a_last.before).v, BegPreis(a_last.args, a_last.before).v}
       /\ ComparePreis(a_last.args, a_last.before) = BegPreis(a_last.args, a_last.before)

\* C36: the transcript of run_agent starts with the system prompt and the user
\* message; a turn with a recognized tool call appends the reply as an
\* assistant entry, then dispatches, then appends the tool's text as a user
\* entry; a final turn appends nothing. After k tool turns it has 2 + 2k
\* entries, and from the second entry on user and assistant alternate.
TranscriptShape ==
    /\ Len(messages) = 2 + 2 * a_calls + (IF apc = "dispatch" THEN 1 ELSE 0)
    /\ messages[1].role = "system" /\ messages[2].role = "user"
    /\ messages[2].kind = "message"
    /\ \A i \in 3..Len(messages) :
          IF i % 2 = 1
          THEN messages[i].role = "assistant" /\ messages[i].kind = "reply"
          ELSE /\ messages[i].role = "user" /\ messages[i].tool = messages[i - 1].tool
               /\ messages[i].kind \in {"ok", "error", "need invoice"}
TranscriptStep ==
    a_caller = "run_agent" =>
        /\ messages' # messages =>
              /\ Len(messages') = Len(messages) + 1
              /\ SubSeq(messages', 1, Len(messages)) = messages
              /\ LET m == messages'[Len(messages')] IN
                 \/ /\ m.role = "assistant" /\ a_chats' = a_chats + 1 /\ a_calls' = a_calls
                    /\ state' = state /\ apc' = "dispatch" /\ m.tool = pending'.name
                 \/ /\ m.role = "user" /\ a_chats' = a_chats /\ a_calls' = a_calls + 1
                    /\ messages[Len(messages)].role = "assistant"
                    /\ m.kind = a_last'.text.kind /\ m.tool = a_last'.name
        /\ a_calls' # a_calls => messages' # messages
        /\ (a_chats' # a_chats /\ apc' = "returned") => messages' = messages
C36_TranscriptShape ==
    /\ [](a_caller = "run_agent" => TranscriptShape)
    /\ [][TranscriptStep]_vars

\* C36 witness: one tool turn, then a final answer: four entries.
C36_Witness ==
    /\ a_caller = "run_agent" /\ apc = "returned" /\ a_ret.kind = "answer"
    /\ a_calls = 1 /\ a_chats = 2 /\ Len(messages) = 4
    /\ messages[3].role = "assistant" /\ messages[4].role = "user"

\* C37: a call that returns a failure text leaves the state as it was; a
\* successful call writes the one entry that belongs to the tool and leaves
\* every other entry as it was.
C37_FrameOfToolCall ==
    ToolCalled =>
        IF a_last.text.kind = "ok"
        THEN /\ \A k \in DOMAIN state \ {ResultKey[a_last.name]} : state[k] = a_last.before[k]
             /\ state[ResultKey[a_last.name]].by = a_last.name
             /\ state[ResultKey[a_last.name]].at = a_calls
        ELSE /\ a_last.text.kind \in {"error", "need invoice", "unknown"}
             /\ state = a_last.before

\* C37 witness: with an invoice and a comparison in the state,
\* calculate_beg_advantage failed on a non-numeric price.
C37_Witness ==
    /\ ToolCalled /\ a_last.name = "calculate_beg_advantage" /\ a_last.text.kind = "error"
    /\ a_last.text.exc = "ValueError"
    /\ state["invoice"].present /\ state["tariff_comparison"].present
    /\ ~state["beg_calculation"].present

\* C37 witness, success: the comparison was written next to an invoice and a
\* report of earlier calls.
C37_WitnessSuccess ==
    /\ LastSucceeded /\ a_last.name = "compare_tariffs"
    /\ state["invoice"].present /\ state["invoice"].at < a_calls
    /\ state["tariff_comparison"].at = a_calls

\* The first tool-invocation block of a reply, a block being what an opening
\* and the next closing tag delimit: its content, and the call it stands for
\* (none when the content is not one text, is unparseable without a
\* recognizable name, or names an unknown tool).
BlockStarts(s) ==
    {i \in 1..Len(s) : TagAt(s, i) = 3 /\ \E j \in (i + 3)..Len(s) : TagAt(s, j) = 4}
FirstBlockContent(s) ==
    LET i == CHOOSE i \in BlockStarts(s) : \A k \in BlockStarts(s) : i <= k
        j == CHOOSE j \in (i + 3)..Len(s) :
                 TagAt(s, j) = 4 /\ \A k \in (i + 3)..(j - 1) : TagAt(s, k) # 4
    IN  SubSeq(s, i + 3, j - 1)
FirstBlockCall(s) ==
    LET c == FirstBlockContent(s) IN
    IF Len(c) = 1 /\ c[1].c \in {"{", "{-"} THEN ParseToolCall(<<c[1].body>>) ELSE NoCall

\* C40: in each turn of run_agent at most one tool is dispatched, and the
\* first block of the reply alone decides: a valid first block is the call
\* that is dispatched, whatever follows it; with an invalid first block the
\* reply is the final answer, even when a later block is valid.
C40_FirstBlockDecides ==
    /\ [](a_caller = "run_agent" => a_calls <= a_chats)
    /\ [][a_caller = "run_agent" =>
            /\ a_calls' \in {a_calls, a_calls + 1}
            /\ a_calls' # a_calls => a_chats' = a_chats /\ a_chats = a_calls + 1
            /\ (a_chats' # a_chats /\ apc' # "raised" /\ BlockStarts(a_reply') # {}) =>
                  IF FirstBlockCall(a_reply').some
                  THEN apc' = "dispatch" /\ pending' = FirstBlockCall(a_reply')
                  ELSE apc' = "returned" /\ a_ret'.kind = "answer"]_vars

(***************************************************************************)
(* Further claims about stream and start_pipeline_run                      *)
(***************************************************************************)

\* the requests that hold the queue of run r, streaming or ended
Attached(r) == {l \in Listeners : l_pc[l] \in {"streaming", "ended"} /\ l_run[l] = r}
\* what the generator yields for an event of the queue
Rendered(ev) ==
    IF ev.step # "complete" THEN [event |-> "progress", n |-> ev.n, message |-> "-"]
    ELSE IF ev.status = "done" THEN [event |-> "complete", n |-> 0, message |-> "-"]
    ELSE [event |-> "error", n |-> 0, message |-> "pipeline"]
IsTimeout(e) == e.message = "Timeout"
\* the events of the run a request was given, without the timeout message
Delivered(l) == SelectSeq(l_got[l], LAMBDA e : ~IsTimeout(e))
GotComplete(l) ==
    \E i \in DOMAIN l_got[l] : l_got[l][i].event = "complete" \/ l_got[l][i].message = "pipeline"
\* the worker's put number of a delivered event, 0 when the worker put no such event
PutIndex(r, e) ==
    IF \E i \in DOMAIN run_put[r] : Rendered(run_put[r][i]) = e
    THEN CHOOSE i \in DOMAIN run_put[r] : Rendered(run_put[r][i]) = e ELSE 0

C38_WitnessOneListener ==
    /\ Attached("run1") = {"req1"}
    /\ l_got["req1"] = <<Rendered(ProgressEvent(1)), Rendered(ProgressEvent(2)),
                         Rendered(CompleteEvent("returned"))>>
    /\ l_pc["req1"] = "ended" /\ "run1" \notin active_runs

====
